---- MODULE Spec2Model ----
(***************************************************************************)
(* NearAI frame manager: fusion of embedded metadata with pose records,    *)
(* grouping into acquisitions, sequence/frame assignment, rendering of     *)
(* frames and per-sequence aggregates, and the single/multi folder runs.   *)
(*                                                                         *)
(* Python values are modelled as follows.  None is << >> and any other     *)
(* value v is << v >>, so that "is None" never compares values of          *)
(* different kinds.  A dict is a function from its keys to such wrapped    *)
(* values; d.get(k) is Get(d, k).  An insertion-ordered dict that is       *)
(* iterated (grouped, poses_by_sequence) is a sequence of entries.         *)
(* A source path is a tuple of numbers << folder, file >>, compared as the *)
(* path strings are (component by component).                              *)
(***************************************************************************)
EXTENDS Integers, Sequences, FiniteSets, TLC

(* ------------------------------ bounds -------------------------------- *)

\* images in the input tree of a run with arbitrary arguments
MaxImages == 2

\* images in the folder of a single-folder run with valid arguments
MaxRecords == 3

\* --max-per-seq
MaxPerSeq == 2

\* folders of a multi-folder run
MaxFolders == 2

(* --------------------------- Python values ---------------------------- *)

None == << >>

Some(v) == << v >>

Get(d, k) == IF k \in DOMAIN d THEN d[k] ELSE None

EmptyDict == [k \in {} |-> None]

Range(s) == { s[i] : i \in DOMAIN s }

\* f"{n:0{width}d}" for n >= 0
Digit(d) ==
    CASE d = 0 -> "0" [] d = 1 -> "1" [] d = 2 -> "2" [] d = 3 -> "3"
      [] d = 4 -> "4" [] d = 5 -> "5" [] d = 6 -> "6" [] d = 7 -> "7"
      [] d = 8 -> "8" [] OTHER -> "9"

RECURSIVE Decimal(_)
Decimal(n) == IF n < 10 THEN Digit(n) ELSE Decimal(n \div 10) \o Digit(n % 10)

RECURSIVE ZeroPad(_, _)
ZeroPad(text, width) == IF Len(text) >= width THEN text ELSE ZeroPad("0" \o text, width)

FormatInt(n, width) == ZeroPad(Decimal(n), width)

(* ------------------------------ common.py ----------------------------- *)

\* A date text is [fmt, ymd]: the digits ymd written in the layout fmt
\* ("%Y:%m:%d", "%Y-%m-%d", "%Y%m%d", or "other" for anything else).
\* A timestamp text is [date, tod]: a date text, "T", and a time of day.
ValidDates ==
    {"19700101", "19700102", "19800106", "19800107", "20240101", "20240102", "20240105"}

parse_exif_date(value) ==
    IF value = None THEN None
    ELSE IF value[1].fmt \in {"%Y:%m:%d", "%Y-%m-%d", "%Y%m%d"} /\ value[1].ymd \in ValidDates
         THEN Some(value[1].ymd)
         ELSE None

\* str(ts).split("T")[0].split(" ")[0]
DatePortion(ts) == Some(ts.date)

\* (base + timedelta(seconds=seconds)).isoformat(): the calendar day of the epoch
\* plus whole days, and the remaining seconds as time of day.
\* (days < 3 in every run of the model)
EpochDay(epoch, days) ==
    IF epoch = "gps" THEN "1980010" \o Digit(6 + days) ELSE "1970010" \o Digit(1 + days)

seconds_to_utc(seconds, epoch) ==
    [date |-> [fmt |-> "%Y-%m-%d", ymd |-> EpochDay(epoch, seconds \div 86400)],
     tod |-> seconds % 86400]

\* prune_none on a dict whose values are scalars
PruneFlat(d) == [k \in {j \in DOMAIN d : d[j] # None} |-> d[k]]

\* prune_none on a dict; the keys in subs hold dicts, the others scalars
prune_none(d, subs) ==
    LET sub(k) == IF k \in subs /\ d[k] # None THEN Some(PruneFlat(d[k][1])) ELSE d[k]
        keep == {k \in DOMAIN d :
                    /\ sub(k) # None
                    /\ ~(k \in subs /\ DOMAIN sub(k)[1] = {})}
    IN [k \in keep |-> sub(k)]

\* date_from_folder_name: the first run of 8 digits that is a valid date.
\* A folder name is given by its runs of 8 digits, in order.
RECURSIVE date_from_folder_name(_)
date_from_folder_name(runs) ==
    IF runs = << >> THEN None
    ELSE IF Head(runs) \in ValidDates THEN Some(Head(runs))
    ELSE date_from_folder_name(Tail(runs))

(* ----------------------------- csv_utils.py --------------------------- *)

\* load_pose_csv, per row: a csv file is a function from the normalized
\* image key to the parsed cells of its row.
PoseRow(key, cells, epoch) ==
    [file_name |-> Some(key),
     gps_seconds |-> cells.gps_seconds,
     timestamp |-> IF cells.gps_seconds # None
                   THEN Some(seconds_to_utc(cells.gps_seconds[1], epoch))
                   ELSE None,
     gps_latitude |-> cells.latitude,
     gps_longitude |-> cells.longitude,
     gps_altitude_m |-> cells.altitude,
     heading_deg |-> cells.heading,
     pitch_deg |-> cells.pitch,
     roll_deg |-> cells.roll]

load_pose_csv(csv, epoch) == [key \in DOMAIN csv.rows |-> PoseRow(key, csv.rows[key], epoch)]

(* ----------------------------- exif_utils.py -------------------------- *)

\* datetime.fromtimestamp(mtime, tz=utc).strftime("%Y%m%d")
MtimeDate(mtime) == EpochDay("unix", mtime \div 86400)

\* gps_datetime_utc: needs a parseable date stamp and a time stamp
gps_datetime_utc(gps_date, gps_time) ==
    LET date_code == parse_exif_date(gps_date)
    IN IF date_code = None \/ gps_time = None THEN None
       ELSE Some([date |-> [fmt |-> "%Y-%m-%d", ymd |-> date_code[1]], tod |-> gps_time[1]])

exif_date_code(image) ==
    LET exif == image.exif
        gps_date_code == parse_exif_date(exif.gps_date)
        dt_date_code == IF exif.dt_text # None
                        THEN parse_exif_date(DatePortion(exif.dt_text[1]))
                        ELSE None
        date_code == IF gps_date_code # None THEN gps_date_code ELSE dt_date_code
    IN IF date_code = None THEN MtimeDate(image.mtime) ELSE date_code[1]

exif_derived(image) ==
    LET exif == image.exif
    IN prune_none(
         [datetime_original |-> exif.dt_text,
          gps |-> Some([latitude_deg |-> exif.gps_lat,
                        longitude_deg |-> exif.gps_lon,
                        altitude_m |-> exif.gps_alt,
                        altitude_ref |-> exif.gps_alt_ref,
                        timestamp_utc |-> gps_datetime_utc(exif.gps_date, exif.gps_time)]),
          camera |-> Some([model |-> exif.camera_model])],
         {"gps", "camera"})

extract_exif_metadata(image) == << exif_date_code(image), exif_derived(image) >>

(* ----------------------------- processing.py -------------------------- *)

\* tuple comparison of (int, float, str) keys; paths compare component-wise
PathLess(a, b) == a[1] < b[1] \/ (a[1] = b[1] /\ a[2] < b[2])

KeyLess(a, b) ==
    \/ a[1] < b[1]
    \/ a[1] = b[1] /\ a[2] < b[2]
    \/ a[1] = b[1] /\ a[2] = b[2] /\ PathLess(a[3], b[3])

\* a dict is truthy when it is not None and not empty
TruthyDict(v) == v # None /\ DOMAIN v[1] # {}

\* a string is truthy when it is not None and not ""
TruthyText(v) == v # None /\ v # Some("")

\* the key without its group: every record ordered by mtime
record_sort_key_mtime_only(record) == << 1, record.mtime, record.src >>

record_sort_key_no_path(record) ==
    LET csv_pose == record.csv_pose
    IN IF TruthyDict(csv_pose) /\ Get(csv_pose[1], "gps_seconds") # None
       THEN << 0, csv_pose[1]["gps_seconds"][1], << 0, 0 >> >>
       ELSE << 1, record.mtime, << 0, 0 >> >>

record_sort_key(record) ==
    LET csv_pose == record.csv_pose
    IN IF TruthyDict(csv_pose) /\ Get(csv_pose[1], "gps_seconds") # None
       THEN << 0, csv_pose[1]["gps_seconds"][1], record.src >>
       ELSE << 1, record.mtime, record.src >>

\* records.sort(key=record_sort_key): a stable sort by the key
RECURSIVE InsertByKey(_, _)
InsertByKey(r, s) ==
    IF s = << >> THEN << r >>
    ELSE IF KeyLess(record_sort_key(r), record_sort_key(Head(s)))
         THEN << r >> \o s
         ELSE << Head(s) >> \o InsertByKey(r, Tail(s))

RECURSIVE SortRecords(_)
SortRecords(recs) ==
    IF recs = << >> THEN << >>
    ELSE InsertByKey(recs[Len(recs)], SortRecords(SubSeq(recs, 1, Len(recs) - 1)))

\* the date portion of the timestamp taken as it is, without parsing it
choose_acquisition_date_unparsed(default_date, csv_pose) ==
    IF TruthyDict(csv_pose) /\ Get(csv_pose[1], "timestamp") # None
    THEN csv_pose[1]["timestamp"][1].date.ymd
    ELSE default_date

choose_acquisition_date(default_date, csv_pose) ==
    IF TruthyDict(csv_pose) /\ Get(csv_pose[1], "timestamp") # None
    THEN LET csv_date == parse_exif_date(DatePortion(csv_pose[1]["timestamp"][1]))
         IN IF csv_date # None THEN csv_date[1] ELSE default_date
    ELSE default_date

\* the override test "csv_pose.get(key) is not None" written as truthiness
apply_csv_overrides_truthy(derived, csv_pose) ==
    IF ~TruthyDict(csv_pose) THEN derived
    ELSE
      LET pose == csv_pose[1]
          gps_info == IF "gps" \in DOMAIN derived THEN derived["gps"][1] ELSE EmptyDict
          Over(gps_key, csv_key) ==
              IF Get(pose, csv_key) # None /\ Get(pose, csv_key) # Some(0)
              THEN pose[csv_key] ELSE Get(gps_info, gps_key)
          merged ==
              [k \in DOMAIN gps_info \cup
                     {"latitude_deg", "longitude_deg", "altitude_m", "timestamp_utc"} |->
                 CASE k = "latitude_deg" -> Over("latitude_deg", "gps_latitude")
                   [] k = "longitude_deg" -> Over("longitude_deg", "gps_longitude")
                   [] k = "altitude_m" -> Over("altitude_m", "gps_altitude_m")
                   [] k = "timestamp_utc" ->
                        (IF Get(pose, "timestamp") # None THEN pose["timestamp"]
                         ELSE Get(gps_info, "timestamp_utc"))
                   [] OTHER -> gps_info[k]]
      IN [k \in DOMAIN derived \cup {"gps"} |->
            IF k = "gps" THEN Some(PruneFlat(merged)) ELSE derived[k]]

apply_csv_overrides(derived, csv_pose) ==
    IF ~TruthyDict(csv_pose) THEN derived
    ELSE
      LET pose == csv_pose[1]
          gps_info == IF "gps" \in DOMAIN derived THEN derived["gps"][1] ELSE EmptyDict
          Over(gps_key, csv_key) ==
              IF Get(pose, csv_key) # None THEN pose[csv_key] ELSE Get(gps_info, gps_key)
          merged ==
              [k \in DOMAIN gps_info \cup
                     {"latitude_deg", "longitude_deg", "altitude_m", "timestamp_utc"} |->
                 CASE k = "latitude_deg" -> Over("latitude_deg", "gps_latitude")
                   [] k = "longitude_deg" -> Over("longitude_deg", "gps_longitude")
                   [] k = "altitude_m" -> Over("altitude_m", "gps_altitude_m")
                   [] k = "timestamp_utc" -> Over("timestamp_utc", "timestamp")
                   [] OTHER -> gps_info[k]]
      IN [k \in DOMAIN derived \cup {"gps"} |->
            IF k = "gps" THEN Some(PruneFlat(merged)) ELSE derived[k]]

\* build_records, for one image entry
build_record(image, pose_lookup) ==
    LET csv_pose == IF DOMAIN pose_lookup # {} /\ image.key \in DOMAIN pose_lookup
                    THEN Some(pose_lookup[image.key]) ELSE None
        meta == extract_exif_metadata(image)
    IN [src |-> image.path,
        ext |-> image.ext,
        original_name |-> image.name,
        acquisition_date |-> choose_acquisition_date(meta[1], csv_pose),
        derived |-> apply_csv_overrides(meta[2], csv_pose),
        mtime |-> image.mtime,
        csv_pose |-> csv_pose]

build_records(image_entries, pose_lookup) ==
    [i \in DOMAIN image_entries |-> build_record(image_entries[i], pose_lookup)]

\* info.get("csv_pose") or {}
PoseOrEmpty(info) == IF TruthyDict(info.csv_pose) THEN info.csv_pose[1] ELSE EmptyDict

\* the coordinates read from the pose row instead of the merged gps sub-tree
build_pose_entry_pose_only(info, frame_index, image_name) ==
    LET derived == info.derived
        gps_info == IF "gps" \in DOMAIN derived THEN derived["gps"][1] ELSE EmptyDict
        csv_pose == PoseOrEmpty(info)
        timestamp == IF Get(csv_pose, "timestamp") # None THEN csv_pose["timestamp"]
                     ELSE IF Get(gps_info, "timestamp_utc") # None THEN gps_info["timestamp_utc"]
                     ELSE Get(derived, "datetime_original")
    IN [frame_index |-> Some(frame_index),
        image_name |-> Some(image_name),
        timestamp |-> timestamp,
        gps_latitude |-> IF info.csv_pose # None THEN Get(csv_pose, "gps_latitude")
                         ELSE Get(gps_info, "latitude_deg"),
        gps_longitude |-> IF info.csv_pose # None THEN Get(csv_pose, "gps_longitude")
                          ELSE Get(gps_info, "longitude_deg"),
        gps_altitude_m |-> IF info.csv_pose # None THEN Get(csv_pose, "gps_altitude_m")
                           ELSE Get(gps_info, "altitude_m"),
        heading_deg |-> Get(csv_pose, "heading_deg"),
        pitch_deg |-> Get(csv_pose, "pitch_deg"),
        roll_deg |-> Get(csv_pose, "roll_deg")]

build_pose_entry(info, frame_index, image_name) ==
    LET derived == info.derived
        gps_info == IF "gps" \in DOMAIN derived THEN derived["gps"][1] ELSE EmptyDict
        csv_pose == PoseOrEmpty(info)
        timestamp == IF Get(csv_pose, "timestamp") # None THEN csv_pose["timestamp"]
                     ELSE IF Get(gps_info, "timestamp_utc") # None THEN gps_info["timestamp_utc"]
                     ELSE Get(derived, "datetime_original")
    IN [frame_index |-> Some(frame_index),
        image_name |-> Some(image_name),
        timestamp |-> timestamp,
        gps_latitude |-> Get(gps_info, "latitude_deg"),
        gps_longitude |-> Get(gps_info, "longitude_deg"),
        gps_altitude_m |-> Get(gps_info, "altitude_m"),
        heading_deg |-> Get(csv_pose, "heading_deg"),
        pitch_deg |-> Get(csv_pose, "pitch_deg"),
        roll_deg |-> Get(csv_pose, "roll_deg")]

POSE_DATA_FIELDS ==
    << "timestamp", "gps_latitude", "gps_longitude", "gps_altitude_m",
       "heading_deg", "pitch_deg", "roll_deg" >>

\* value is not None and value != "" (only the timestamp is a string)
pose_has_data_first_only(entry) == Get(entry, POSE_DATA_FIELDS[1]) # None

pose_has_data(entry) ==
    \E i \in DOMAIN POSE_DATA_FIELDS : Get(entry, POSE_DATA_FIELDS[i]) # None

build_annotation_payload(info, acquisition_id, sequence_id, sensor_id, frame_index) ==
    LET derived == info.derived
        gps_info == Get(derived, "gps")
        csv_pose == PoseOrEmpty(info)
    IN prune_none(
         [previous_name |-> Some(info.original_name),
          acquisition_id |-> Some(acquisition_id),
          sequence_id |-> Some(sequence_id),
          sensor_id |-> Some(sensor_id),
          frame_index |-> Some(frame_index),
          capture |-> Some([datetime_original |-> Get(derived, "datetime_original"),
                            gps_timestamp_utc |->
                                IF TruthyDict(gps_info)
                                THEN Get(gps_info[1], "timestamp_utc") ELSE None]),
          gps |-> gps_info,
          pose |-> Some([source |-> IF TruthyDict(info.csv_pose) THEN Some("csv") ELSE None,
                         timestamp |-> Get(csv_pose, "timestamp"),
                         gps_seconds |-> Get(csv_pose, "gps_seconds"),
                         gps_latitude |-> Get(csv_pose, "gps_latitude"),
                         gps_longitude |-> Get(csv_pose, "gps_longitude"),
                         gps_altitude_m |-> Get(csv_pose, "gps_altitude_m"),
                         heading_deg |-> Get(csv_pose, "heading_deg"),
                         pitch_deg |-> Get(csv_pose, "pitch_deg"),
                         roll_deg |-> Get(csv_pose, "roll_deg")])],
         {"capture", "gps", "pose"})

\* the label of the first qualifying record that has one
build_coordinate_systems_any_label(records) ==
    LET Qualifies(r) ==
            LET gps_info == Get(r.derived, "gps")
            IN /\ TruthyDict(gps_info)
               /\ Get(gps_info[1], "latitude_deg") # None
               /\ Get(gps_info[1], "longitude_deg") # None
        hits == {i \in DOMAIN records : Qualifies(records[i])}
        labelled == {i \in hits : TruthyText(Get(records[i].derived["gps"][1], "altitude_ref"))}
    IN IF hits = {} THEN None
       ELSE LET position == [reference |-> Some("WGS84"), epsg |-> Some(4326),
                             units |-> Some("degrees"), altitude_units |-> Some("meters"),
                             altitude_reference |->
                                 IF labelled = {} THEN None
                                 ELSE records[CHOOSE i \in labelled : \A j \in labelled : i <= j]
                                        .derived["gps"][1]["altitude_ref"]]
            IN Some([position |-> Some(PruneFlat(position)), source |-> Some("EXIF GPS")])

build_coordinate_systems(records) ==
    LET Qualifies(r) ==
            LET gps_info == Get(r.derived, "gps")
            IN /\ TruthyDict(gps_info)
               /\ Get(gps_info[1], "latitude_deg") # None
               /\ Get(gps_info[1], "longitude_deg") # None
        hits == {i \in DOMAIN records : Qualifies(records[i])}
    IN IF hits = {} THEN None
       ELSE LET first == CHOOSE i \in hits : \A j \in hits : i <= j
                gps_info == records[first].derived["gps"][1]
                position == [reference |-> Some("WGS84"), epsg |-> Some(4326),
                             units |-> Some("degrees"), altitude_units |-> Some("meters"),
                             altitude_reference |-> IF TruthyText(Get(gps_info, "altitude_ref"))
                                                    THEN gps_info["altitude_ref"] ELSE None]
            IN Some([position |-> Some(PruneFlat(position)), source |-> Some("EXIF GPS")])

build_intrinsics(records, sensor_id) ==
    LET Intrinsics(r) ==
            LET camera == IF "camera" \in DOMAIN r.derived THEN r.derived["camera"][1]
                          ELSE EmptyDict
            IN PruneFlat([sensor_id |-> Some(sensor_id), camera_model |-> Get(camera, "model")])
        hits == {i \in DOMAIN records :
                    /\ "camera" \in DOMAIN records[i].derived
                    /\ Cardinality(DOMAIN Intrinsics(records[i])) > 1}
    IN IF hits = {} THEN None
       ELSE Some(Intrinsics(records[CHOOSE i \in hits : \A j \in hits : i <= j]))

\* build_geojson_track: parse_float of a row value is the value itself (a float or None)
GeoPositions(rows) ==
    SelectSeq(rows, LAMBDA row : Get(row, "gps_latitude") # None /\ Get(row, "gps_longitude") # None)

\* altitude kept row by row instead of all or nothing
build_geojson_track_mixed(rows, acquisition_id, sequence_id, sensor_id) ==
    LET positions == GeoPositions(rows)
        alt_count == Len(SelectSeq(positions, LAMBDA row : Get(row, "gps_altitude_m") # None))
        coordinates ==
            [i \in DOMAIN positions |->
                IF Get(positions[i], "gps_altitude_m") # None
                THEN << positions[i]["gps_longitude"][1], positions[i]["gps_latitude"][1],
                        positions[i]["gps_altitude_m"][1] >>
                ELSE << positions[i]["gps_longitude"][1], positions[i]["gps_latitude"][1] >>]
    IN IF Len(positions) < 2 THEN None
       ELSE Some([acquisition_id |-> acquisition_id,
                  sequence_id |-> sequence_id,
                  sensor_id |-> sensor_id,
                  point_count |-> Len(coordinates),
                  altitude_units |-> IF alt_count > 0 THEN Some("meters") ELSE None,
                  coordinates |-> coordinates])

build_geojson_track_any_point(rows, acquisition_id, sequence_id, sensor_id) ==
    LET positions == GeoPositions(rows)
    IN IF Len(positions) < 1 THEN None
       ELSE Some([point_count |-> Len(positions)])

build_geojson_track(rows, acquisition_id, sequence_id, sensor_id) ==
    LET positions == GeoPositions(rows)
        alt_count == Len(SelectSeq(positions, LAMBDA row : Get(row, "gps_altitude_m") # None))
        include_alt == alt_count = Len(positions)
        coordinates ==
            [i \in DOMAIN positions |->
                IF include_alt /\ Get(positions[i], "gps_altitude_m") # None
                THEN << positions[i]["gps_longitude"][1], positions[i]["gps_latitude"][1],
                        positions[i]["gps_altitude_m"][1] >>
                ELSE << positions[i]["gps_longitude"][1], positions[i]["gps_latitude"][1] >>]
    IN IF Len(positions) < 2 THEN None
       ELSE Some([acquisition_id |-> acquisition_id,
                  sequence_id |-> sequence_id,
                  sensor_id |-> sensor_id,
                  point_count |-> Len(coordinates),
                  altitude_units |-> IF include_alt THEN Some("meters") ELSE None,
                  coordinates |-> coordinates])

\* floor division and remainder exchanged
sequence_ids_swapped(index, max_per_seq) ==
    LET sequence_index == ((index - 1) % max_per_seq) + 1
        frame_index == ((index - 1) \div max_per_seq) + 1
    IN << "S" \o FormatInt(sequence_index, 3), FormatInt(frame_index, 6), frame_index >>

sequence_ids_unsplit(index, max_per_seq) ==
    << "S" \o FormatInt(1, 3), FormatInt(index, 6), index >>

sequence_ids_floor(index, max_per_seq) ==
    LET sequence_index == (index \div max_per_seq) + 1
        frame_index == (index % max_per_seq) + 1
    IN << "S" \o FormatInt(sequence_index, 3), FormatInt(frame_index, 6), frame_index >>

sequence_ids(index, max_per_seq) ==
    LET sequence_index == ((index - 1) \div max_per_seq) + 1
        frame_index == ((index - 1) % max_per_seq) + 1
    IN << "S" \o FormatInt(sequence_index, 3), FormatInt(frame_index, 6), frame_index >>

\* a dict that does not keep insertion order: a new key comes first
SetDefaultAppend_unordered(od, key, item) ==
    IF \E i \in DOMAIN od : od[i].key = key
    THEN [i \in DOMAIN od |->
            IF od[i].key = key THEN [od[i] EXCEPT !.items = Append(@, item)] ELSE od[i]]
    ELSE << [key |-> key, items |-> << item >>] >> \o od

\* dict.setdefault(key, []).append(item) on an insertion-ordered dict
SetDefaultAppend(od, key, item) ==
    IF \E i \in DOMAIN od : od[i].key = key
    THEN [i \in DOMAIN od |->
            IF od[i].key = key THEN [od[i] EXCEPT !.items = Append(@, item)] ELSE od[i]]
    ELSE Append(od, [key |-> key, items |-> << item >>])

\* the grouping loop of process_records_by_acquisition
RECURSIVE GroupByAcquisition(_, _)
GroupByAcquisition(records, region) ==
    IF records = << >> THEN << >>
    ELSE LET rec == records[Len(records)]
         IN SetDefaultAppend(GroupByAcquisition(SubSeq(records, 1, Len(records) - 1), region),
                             rec.acquisition_date \o "-" \o region, rec)

(* ------------------------------ io_utils.py --------------------------- *)

\* find_first_image_path: the first image in sorted order
find_first_image_path(folder) ==
    IF folder.images = << >> THEN None
    ELSE Some(CHOOSE im \in Range(folder.images) :
                \A other \in Range(folder.images) : ~PathLess(other.path, im.path))

\* extract_camera_model
extract_camera_model(sample) == IF sample = None THEN None ELSE sample[1].exif.camera_model

\* collect_lidar_paths / find_lidar_paths: the point-cloud files of the run, or the
\* error raised. found: the .laz/.las files under the folder searched or named.
collect_lidar_paths(lidar_path, found) ==
    CASE lidar_path = "none" -> [result |-> "ok", paths |-> << >>]
      [] lidar_path = "auto" -> [result |-> "ok", paths |-> found]
      [] lidar_path = "missing" -> [result |-> "FileNotFoundError", paths |-> << >>]
      [] OTHER -> IF found = << >>
                  THEN [result |-> "ValueError", paths |-> << >>]
                  ELSE [result |-> "ok", paths |-> found]

\* constants.py, POSE_FIELDS
POSE_FIELDS ==
    << "frame_index", "image_name", "timestamp", "gps_latitude", "gps_longitude",
       "gps_altitude_m", "heading_deg", "pitch_deg", "roll_deg" >>

\* only the rows that hold a pose value
write_trajectory_csv_data_only(rows) ==
    SelectSeq([n \in DOMAIN rows |-> [key \in Range(POSE_FIELDS) |-> Get(rows[n], key)]],
              pose_has_data)

\* write_trajectory_csv: the lines of the file after the header, one per row, with a
\* cell for each of POSE_FIELDS (empty for a value that is missing or None)
write_trajectory_csv(rows) ==
    [n \in DOMAIN rows |-> [key \in Range(POSE_FIELDS) |-> Get(rows[n], key)]]

\* A point-cloud file is [dir, name]: the directory that holds it and its base
\* name, given in pieces (the base name is the pieces joined), so that a test on
\* the start of the name is a test on its leading pieces.
RECURSIVE Join(_)
Join(pieces) == IF pieces = << >> THEN "" ELSE Head(pieces) \o Join(Tail(pieces))

LidarPath(file) == file.dir \o "/" \o Join(file.name)

\* str.lower() of the texts that carry letters of both cases
LowerCase(text) ==
    LET table == { << d \o "-" \o r[1] \o "_", d \o "-" \o r[2] \o "_" >> :
                     d \in ValidDates,
                     r \in { << "Nyon", "nyon" >>, << "NYON", "nyon" >>, << "HSN", "hsn" >> } }
    IN IF \E pair \in table : pair[1] = text
       THEN (CHOOSE pair \in table : pair[1] = text)[2]
       ELSE text

\* the prefix compared as written, without lower()
lidar_dest_name_case_sensitive(acquisition_id, name) ==
    IF \E k \in 1..Len(name) : Join(SubSeq(name, 1, k)) = acquisition_id \o "_"
    THEN Join(name)
    ELSE acquisition_id \o "_" \o Join(name)

\* copy_lidar_assets, lines 102-105: the name of the copy
lidar_dest_name(acquisition_id, name) ==
    LET acquisition_prefix == LowerCase(acquisition_id \o "_")
    IN IF \E k \in 1..Len(name) : LowerCase(Join(SubSeq(name, 1, k))) = acquisition_prefix
       THEN Join(name)
       ELSE acquisition_id \o "_" \o Join(name)

\* the count raised for a skipped file too
copy_lidar_assets_counts_skipped(acquisition_root, acquisition_id, lidar_paths) ==
    LET lidar_root == acquisition_root \o "/06_point_clouds"
        Copy(i) == [src |-> LidarPath(lidar_paths[i]),
                    dest_path |-> lidar_root \o "/"
                                    \o lidar_dest_name(acquisition_id, lidar_paths[i].name)]
        all == [i \in DOMAIN lidar_paths |-> Copy(i)]
    IN [copied |-> Len(lidar_paths),
        copies |-> SelectSeq(all, LAMBDA c : c.src # c.dest_path)]

\* copy_lidar_assets, lines 101-110: the loop over the files left to handle, with
\* the count and the copies made so far
RECURSIVE copy_lidar_loop(_, _, _, _)
copy_lidar_loop(lidar_root, acquisition_id, lidar_paths, done) ==
    IF lidar_paths = << >> THEN done
    ELSE LET lidar_path == Head(lidar_paths)
             dest_path == lidar_root \o "/" \o lidar_dest_name(acquisition_id, lidar_path.name)
         IN IF LidarPath(lidar_path) = dest_path
            THEN copy_lidar_loop(lidar_root, acquisition_id, Tail(lidar_paths), done)
            ELSE copy_lidar_loop(lidar_root, acquisition_id, Tail(lidar_paths),
                                 [copied |-> done.copied + 1,
                                  copies |-> Append(done.copies,
                                                    [src |-> LidarPath(lidar_path),
                                                     dest_path |-> dest_path])])

\* copy_lidar_assets: the count returned and the copies made, in order
copy_lidar_assets(acquisition_root, acquisition_id, lidar_paths) ==
    copy_lidar_loop(acquisition_root \o "/06_point_clouds", acquisition_id, lidar_paths,
                    [copied |-> 0, copies |-> << >>])

\* a point-cloud file of the input folder
ScanLaz == [dir |-> "in", name |-> << "scan.laz" >>]

(* -------------------------------- state ------------------------------- *)

VARIABLES
    args,          \* the command line and what the user types
    folders,       \* the input tree: folders with their images, pose csv, point clouds
    pc,            \* where the run is
    status,        \* the exit status once the run has ended
    plans,         \* run_multi_acquisition: the plans, the entries, the loop index
    plan_i,
    call,          \* the arguments of the current process_records_by_acquisition call
    grouped,       \* process_records_by_acquisition: grouped, the loop index, the sums
    group_i,
    sums,
    acq,           \* process_acquisition: its locals
    files,         \* the output tree: path -> content
    dirs,          \* the output directories created
    rendered,      \* every frame rendered so far, in order
    processed,     \* the acquisition ids process_acquisition was called with, in order
    log,           \* what was printed on stderr
    report         \* the totals printed at the end, and the running totals of a multi run

vars ==
    << args, folders, pc, status, plans, plan_i, call, grouped, group_i, sums, acq,
       files, dirs, rendered, processed, log, report >>

NoCall == [region |-> "", sensor_id |-> "", lidar_paths |-> << >>, records |-> << >>,
           plan |-> 0, pose_lookup |-> EmptyDict]

NoAcq ==
    [acquisition_id |-> "", records |-> << >>, idx |-> 0, copied |-> 0,
     poses_by_sequence |-> << >>, sequences_with_pose |-> {}, agg_i |-> 0,
     written |-> << >>, call_no |-> 0]

NoFiles == [p \in {} |-> None]

(* ------------------------------- cli.py ------------------------------- *)

load_pose_lookup(csv, epoch, soft_fail) ==
    IF csv = None THEN [result |-> "ok", lookup |-> EmptyDict, logged |-> FALSE]
    ELSE IF csv[1].ok
         THEN [result |-> "ok", lookup |-> load_pose_csv(csv[1], epoch), logged |-> FALSE]
         ELSE IF soft_fail
              THEN [result |-> "ok", lookup |-> EmptyDict, logged |-> TRUE]
              ELSE [result |-> "raise", lookup |-> EmptyDict, logged |-> FALSE]

\* build_plans, for one candidate folder (its index in the input tree)
build_plan(f) ==
    LET folder == folders[f]
        sample == find_first_image_path(folder)
        folder_date == date_from_folder_name(folder.runs)
        sample_date == extract_exif_metadata(sample[1])[1]
    IN [folder |-> f,
        acquisition_date |-> IF folder_date # None THEN folder_date[1] ELSE sample_date,
        pose_csv_path |-> folder.csv,
        lidar_paths |-> folder.lidar,
        default_sensor |-> extract_camera_model(sample)]

\* find_acquisition_folders: the folders that hold an image, in sorted order
Candidates == SelectSeq([f \in DOMAIN folders |-> f], LAMBDA f : folders[f].images # << >>)

\* main, lines 300-366 (the input folder exists and the output is outside it)
Main ==
    /\ pc = "main"
    /\ IF args.max_per_seq <= 0
       THEN /\ pc' = "done" /\ status' = Some(1)
            /\ log' = log \cup {"max-per-seq must be greater than zero."}
            /\ UNCHANGED plans
       ELSE IF args.mode = "multi"
       THEN IF Candidates = << >>
            THEN /\ pc' = "done" /\ status' = Some(0)
                 /\ UNCHANGED << plans, log >>
            ELSE /\ plans' = [i \in DOMAIN Candidates |-> build_plan(Candidates[i])]
                 /\ pc' = "multi"
                 /\ UNCHANGED << status, log >>
       ELSE /\ pc' = "single"
            /\ UNCHANGED << status, plans, log >>
    /\ UNCHANGED << args, folders, plan_i, call, grouped, group_i, sums, acq, files, dirs,
                    rendered, processed, report >>

\* parse_region_sensor / collect_batch_region_sensor: the entry typed for plan i
BatchEntry(i) ==
    LET typed == args.batch[i]
    IN [region |-> typed.region,
        sensor_id |-> IF typed.sensor # None THEN typed.sensor[1]
                      ELSE plans[i].default_sensor[1]]

\* run_multi_acquisition, lines 190-198
MultiCollect ==
    /\ pc = "multi"
    /\ IF args.batch = << >>
       THEN /\ pc' = "done" /\ status' = Some(1)
            /\ log' = log \cup {"Batch entry cancelled or incomplete."}
            /\ UNCHANGED << plan_i, report >>
       ELSE /\ pc' = "plan"
            /\ plan_i' = 1
            /\ report' = [total |-> 0, lidar_total |-> 0, acquisition_total |-> 0]
            /\ UNCHANGED << status, log >>
    /\ UNCHANGED << args, folders, plans, call, grouped, group_i, sums, acq, files, dirs,
                    rendered, processed >>

\* run_multi_acquisition, lines 200-226: one plan, up to the call
MultiPlan ==
    /\ pc = "plan"
    /\ plan_i <= Len(plans)
    /\ LET plan == plans[plan_i]
           entry == BatchEntry(plan_i)
           loaded == load_pose_lookup(plan.pose_csv_path, args.pose_epoch, TRUE)
           image_entries == folders[plan.folder].images
       IN /\ log' = IF loaded.logged THEN log \cup {"Failed to read pose CSV"} ELSE log
          /\ IF image_entries = << >>
             THEN /\ plan_i' = plan_i + 1
                  /\ UNCHANGED << pc, call >>
             ELSE /\ call' = [region |-> entry.region, sensor_id |-> entry.sensor_id,
                              lidar_paths |-> plan.lidar_paths,
                              records |-> build_records(image_entries, loaded.lookup),
                              plan |-> plan_i, pose_lookup |-> loaded.lookup]
                  /\ pc' = "group"
                  /\ UNCHANGED plan_i
    /\ UNCHANGED << args, folders, status, plans, grouped, group_i, sums, acq, files, dirs,
                    rendered, processed, report >>

\* run_multi_acquisition, lines 227-229
MultiAccumulate ==
    /\ pc = "returned"
    /\ args.mode = "multi"
    /\ report' = [total |-> report.total + sums.total,
                  lidar_total |-> report.lidar_total + sums.lidar_total,
                  acquisition_total |-> report.acquisition_total + Len(grouped)]
    /\ plan_i' = plan_i + 1
    /\ pc' = "plan"
    /\ UNCHANGED << args, folders, status, plans, call, grouped, group_i, sums, acq, files,
                    dirs, rendered, processed, log >>

\* run_multi_acquisition, lines 231-234
MultiFinish ==
    /\ pc = "plan"
    /\ plan_i > Len(plans)
    /\ pc' = "done"
    /\ status' = Some(0)
    /\ UNCHANGED << args, folders, plans, plan_i, call, grouped, group_i, sums, acq, files,
                    dirs, rendered, processed, log, report >>

\* normalize_token: the cleaned token, or None when it raises ValueError.
\* "!!" stands for a text with no character of [A-Za-z0-9_-].
normalize_token_lenient(value) == Some(value)

normalize_token(value) == IF value \in {"", "!!"} THEN None ELSE Some(value)

\* resolve_sensor_id(sensor_arg, default_sensor, allow_prompt = not auto):
\* raw is --sensor (None when absent), typed what the user enters when prompted
resolve_sensor_id(raw, typed, default_sensor) ==
    LET is_auto == raw = Some("auto")
        sensor_arg == IF is_auto THEN None ELSE raw
    IN IF sensor_arg # None /\ sensor_arg # Some("") THEN normalize_token(sensor_arg[1])
       ELSE IF default_sensor # None
            THEN (IF ~is_auto /\ typed # "" THEN normalize_token(typed)
                  ELSE normalize_token(default_sensor[1]))
            ELSE (IF is_auto THEN None ELSE normalize_token(typed))

\* run_single_acquisition, lines 243-276
SingleSetup ==
    /\ pc = "single"
    /\ LET folder == folders[1]
           pose_csv_path == IF args.pose_csv = "none" THEN None ELSE folder.csv
           loaded == load_pose_lookup(pose_csv_path, args.pose_epoch, FALSE)
           lidar == collect_lidar_paths(args.lidar_path, folder.lidar)
           default_sensor == extract_camera_model(find_first_image_path(folder))
           region == normalize_token(args.region)
           sensor_id == resolve_sensor_id(args.sensor, args.typed_sensor, default_sensor)
       IN IF region = None
          THEN /\ pc' = "done" /\ status' = Some(1)
               /\ log' = log \cup {"Region cannot be empty."}
               /\ UNCHANGED call
          ELSE IF loaded.result = "raise"
          THEN /\ pc' = "done" /\ status' = Some(1)
               /\ log' = log \cup {"Failed to read pose CSV"}
               /\ UNCHANGED call
          ELSE IF lidar.result # "ok"
          THEN /\ pc' = "done" /\ status' = Some(1)
               /\ log' = log \cup {"LiDAR path not found or empty."}
               /\ UNCHANGED call
          ELSE IF sensor_id = None
          THEN /\ pc' = "done" /\ status' = Some(1)
               /\ log' = log \cup {"Sensor ID missing or empty."}
               /\ UNCHANGED call
          ELSE /\ pc' = "scan"
               /\ call' = [region |-> region[1], sensor_id |-> sensor_id[1],
                           lidar_paths |-> lidar.paths, records |-> << >>,
                           plan |-> 0, pose_lookup |-> loaded.lookup]
               /\ UNCHANGED << status, log >>
    /\ UNCHANGED << args, folders, plans, plan_i, grouped, group_i, sums, acq, files, dirs,
                    rendered, processed, report >>

\* run_single_acquisition, lines 278-293: up to the call
SingleBuild ==
    /\ pc = "scan"
    /\ LET image_entries == folders[1].images
       IN IF image_entries = << >>
          THEN /\ pc' = "done" /\ status' = Some(0)
               /\ UNCHANGED call
          ELSE /\ call' = [call EXCEPT !.records = build_records(image_entries, call.pose_lookup)]
               /\ pc' = "group"
               /\ UNCHANGED status
    /\ UNCHANGED << args, folders, plans, plan_i, grouped, group_i, sums, acq, files, dirs,
                    rendered, processed, log, report >>

\* run_single_acquisition, lines 294-297
SingleFinish ==
    /\ pc = "returned"
    /\ args.mode = "single"
    /\ report' = [total |-> sums.total, lidar_total |-> sums.lidar_total,
                  acquisition_total |-> Len(grouped)]
    /\ pc' = "done"
    /\ status' = Some(0)
    /\ UNCHANGED << args, folders, plans, plan_i, call, grouped, group_i, sums, acq, files,
                    dirs, rendered, processed, log >>

(* --------------------- process_records_by_acquisition ----------------- *)

\* lines 324-329
GroupRecords ==
    /\ pc = "group"
    /\ grouped' = GroupByAcquisition(call.records, call.region)
    /\ sums' = [total |-> 0, lidar_total |-> 0]
    /\ group_i' = 1
    /\ pc' = "acquisition"
    /\ UNCHANGED << args, folders, status, plans, plan_i, call, acq, files, dirs, rendered,
                    processed, log, report >>

WriteFiles(fs, paths, content) ==
    [p \in DOMAIN fs \cup paths |-> IF p \in paths THEN content ELSE fs[p]]

\* process_acquisition, lines 245-266: sort, directories, descriptors
AcqStart ==
    /\ pc = "acquisition"
    /\ LET acquisition_id == grouped[group_i].key
           records == SortRecords(grouped[group_i].items)
           coordinate_systems == build_coordinate_systems(records)
           intrinsics == build_intrinsics(records, call.sensor_id)
           cs_path == acquisition_id \o "/02_poses/coordinate_systems.json"
           in_path == acquisition_id \o "/03_calibration/intrinsics.json"
           files1 == IF coordinate_systems # None
                     THEN WriteFiles(files, {cs_path}, coordinate_systems) ELSE files
           files2 == IF intrinsics # None
                     THEN WriteFiles(files1, {in_path}, intrinsics) ELSE files1
       IN /\ acq' = [acquisition_id |-> acquisition_id, records |-> records, idx |-> 1,
                     copied |-> 0, poses_by_sequence |-> << >>, sequences_with_pose |-> {},
                     agg_i |-> 1,
                     written |-> (IF coordinate_systems # None THEN << cs_path >> ELSE << >>)
                                   \o (IF intrinsics # None THEN << in_path >> ELSE << >>),
                     call_no |-> Len(processed) + 1]
          /\ processed' = Append(processed, acquisition_id)
          /\ dirs' = dirs \cup {acquisition_id \o "/01_images", acquisition_id \o "/03_calibration",
                                acquisition_id \o "/04_annotations", acquisition_id \o "/02_poses"}
          /\ files' = files2
    /\ pc' = "frame"
    /\ UNCHANGED << args, folders, status, plans, plan_i, call, grouped, group_i, sums,
                    rendered, log, report >>

\* a failure swallowed: the loop goes on as if the copy and the write had succeeded
FrameOutcome_swallowed(info) == "ok"

\* a failed write of the annotation ignored: only a failed copy ends the run
FrameOutcome_write_ignored(info) ==
    IF << info.src[2], "copy" >> \in folders[info.src[1]].faults THEN "copy" ELSE "ok"

\* shutil.copy2 (line 288) and write_json (line 291) of a frame: "ok", or the call
\* that raises OSError. faults: the << image, call >> pairs that fail in this run.
FrameOutcome(info) ==
    LET faults == folders[info.src[1]].faults
    IN IF << info.src[2], "copy" >> \in faults THEN "copy"
       ELSE IF << info.src[2], "write" >> \in faults THEN "write"
       ELSE "ok"

\* process_acquisition, lines 268-298: one pass of the loop; an OSError of the copy or
\* of the write is caught nowhere and ends the run with a traceback
RenderFrame ==
    /\ pc = "frame"
    /\ LET info == acq.records[acq.idx]
           outcome == FrameOutcome(info)
           ids == sequence_ids(acq.idx, args.max_per_seq)
           sequence_id == ids[1]
           frame_id == ids[2]
           frame_index == ids[3]
           seq_img_dir == acq.acquisition_id \o "/01_images/" \o sequence_id
           seq_ann_dir == acq.acquisition_id \o "/04_annotations/" \o sequence_id
           new_base == acq.acquisition_id \o "_" \o sequence_id \o "_" \o call.sensor_id
                         \o "_" \o frame_id
           image_name == new_base \o info.ext
           dest_path == seq_img_dir \o "/" \o image_name
           annotation_path == seq_ann_dir \o "/" \o new_base \o ".json"
           annotation_payload == build_annotation_payload(info, acq.acquisition_id, sequence_id,
                                                          call.sensor_id, frame_index)
           pose_entry == build_pose_entry(info, frame_index, image_name)
       IN IF outcome # "ok"
          THEN /\ dirs' = dirs \cup {seq_img_dir, seq_ann_dir}
               /\ files' = IF outcome = "write"
                            THEN WriteFiles(files, {dest_path}, Some([image_of |-> info.src]))
                            ELSE files
               /\ acq' = IF outcome = "write"
                          THEN [acq EXCEPT !.written = Append(@, dest_path)] ELSE acq
               /\ pc' = "done"
               /\ status' = Some(1)
               /\ log' = log \cup {"Traceback"}
               /\ UNCHANGED rendered
          ELSE
          /\ dirs' = dirs \cup {seq_img_dir, seq_ann_dir}
          /\ files' = WriteFiles(WriteFiles(files, {dest_path}, Some([image_of |-> info.src])),
                                 {annotation_path}, Some(annotation_payload))
          /\ rendered' = Append(rendered, [key |-> new_base, src |-> info.src,
                                           acquisition_id |-> acq.acquisition_id,
                                           sequence_id |-> sequence_id, frame_id |-> frame_id,
                                           frame_index |-> frame_index, position |-> acq.idx,
                                           call_no |-> acq.call_no,
                                           annotation |-> annotation_payload])
          /\ acq' = [acq EXCEPT
                       !.poses_by_sequence = SetDefaultAppend(@, sequence_id, pose_entry),
                       !.sequences_with_pose =
                           IF pose_has_data(pose_entry) THEN @ \cup {sequence_id} ELSE @,
                       !.copied = @ + 1,
                       !.idx = @ + 1,
                       !.written = @ \o << dest_path, annotation_path >>]
          /\ pc' = IF acq.idx = Len(acq.records) THEN "aggregate" ELSE "frame"
          /\ UNCHANGED << status, log >>
    /\ UNCHANGED << args, folders, plans, plan_i, call, grouped, group_i, sums,
                    processed, report >>

\* the descriptors written again by the aggregate pass, after the frames
EmitAggregate_with_descriptors ==
    /\ pc = "aggregate"
    /\ LET sequence_id == acq.poses_by_sequence[acq.agg_i].key
           rows == acq.poses_by_sequence[acq.agg_i].items
           trajectory_path == acq.acquisition_id \o "/02_poses/" \o sequence_id
                                \o "_trajectory.csv"
           coordinate_systems == build_coordinate_systems(acq.records)
           intrinsics == build_intrinsics(acq.records, call.sensor_id)
           cs_path == acq.acquisition_id \o "/02_poses/coordinate_systems.json"
           in_path == acq.acquisition_id \o "/03_calibration/intrinsics.json"
           again == (IF coordinate_systems # None THEN << cs_path >> ELSE << >>)
                      \o (IF intrinsics # None THEN << in_path >> ELSE << >>)
       IN IF sequence_id \notin acq.sequences_with_pose
          THEN /\ UNCHANGED files
               /\ acq' = [acq EXCEPT !.agg_i = @ + 1, !.written = @ \o again]
          ELSE /\ files' = WriteFiles(files, {trajectory_path}, Some(write_trajectory_csv(rows)))
               /\ acq' = [acq EXCEPT !.agg_i = @ + 1,
                                     !.written = @ \o again \o << trajectory_path >>]
    /\ pc' = IF acq.agg_i = Len(acq.poses_by_sequence) THEN "acquired" ELSE "aggregate"
    /\ UNCHANGED << args, folders, status, plans, plan_i, call, grouped, group_i, sums, dirs,
                    rendered, processed, log, report >>

\* process_acquisition, lines 303-311: one pass of the loop
EmitAggregate ==
    /\ pc = "aggregate"
    /\ LET sequence_id == acq.poses_by_sequence[acq.agg_i].key
           rows == acq.poses_by_sequence[acq.agg_i].items
           trajectory_path == acq.acquisition_id \o "/02_poses/" \o sequence_id
                                \o "_trajectory.csv"
           geojson_path == acq.acquisition_id \o "/02_poses/" \o sequence_id
                             \o "_trajectory.geojson"
           geojson_payload == build_geojson_track(rows, acq.acquisition_id, sequence_id,
                                                  call.sensor_id)
       IN IF sequence_id \notin acq.sequences_with_pose
          THEN /\ UNCHANGED files
               /\ acq' = [acq EXCEPT !.agg_i = @ + 1]
          ELSE IF geojson_payload = None
          THEN /\ files' = WriteFiles(files, {trajectory_path}, Some(write_trajectory_csv(rows)))
               /\ acq' = [acq EXCEPT !.agg_i = @ + 1, !.written = Append(@, trajectory_path)]
          ELSE /\ files' = WriteFiles(WriteFiles(files, {trajectory_path}, Some(write_trajectory_csv(rows))),
                                      {geojson_path}, geojson_payload)
               /\ acq' = [acq EXCEPT !.agg_i = @ + 1,
                                     !.written = @ \o << trajectory_path, geojson_path >>]
    /\ pc' = IF acq.agg_i = Len(acq.poses_by_sequence) THEN "acquired" ELSE "aggregate"
    /\ UNCHANGED << args, folders, status, plans, plan_i, call, grouped, group_i, sums, dirs,
                    rendered, processed, log, report >>

\* process_records_by_acquisition, lines 331-337: the return of process_acquisition,
\* the point-cloud copies, and the next group
AcqReturn ==
    /\ pc = "acquired"
    /\ LET lidar == copy_lidar_assets(acq.acquisition_id, acq.acquisition_id, call.lidar_paths)
       IN /\ sums' = [total |-> sums.total + acq.copied,
                      lidar_total |-> sums.lidar_total + lidar.copied]
          /\ files' = WriteFiles(files, { c.dest_path : c \in Range(lidar.copies) },
                                 Some("point cloud"))
          /\ dirs' = IF call.lidar_paths # << >>
                     THEN dirs \cup {acq.acquisition_id \o "/06_point_clouds"} ELSE dirs
    /\ group_i' = group_i + 1
    /\ pc' = IF group_i = Len(grouped) THEN "returned" ELSE "acquisition"
    /\ UNCHANGED << args, folders, status, plans, plan_i, call, grouped, acq, rendered,
                    processed, log, report >>

(* ------------------------------- inputs ------------------------------- *)

NoExif ==
    [gps_lat |-> None, gps_lon |-> None, gps_alt |-> None, gps_alt_ref |-> None,
     gps_date |-> None, gps_time |-> None, dt_text |-> None, camera_model |-> None]

NoCells ==
    [gps_seconds |-> None, latitude |-> None, longitude |-> None, altitude |-> None,
     heading |-> None, pitch |-> None, roll |-> None]

\* The image kinds of a run: what the file holds (mtime, decoded tags) and the
\* cells of its row in the folder's pose csv, if it has one.
Profiles ==
    { [mtime |-> 1, exif |-> NoExif, cells |-> None],
      [mtime |-> 1,
       exif |-> [NoExif EXCEPT !.gps_lat = Some(46), !.gps_lon = Some(6), !.gps_alt = Some(400),
                               !.gps_alt_ref = Some("above_sea_level"),
                               !.gps_date = Some([fmt |-> "%Y:%m:%d", ymd |-> "20240101"]),
                               !.gps_time = Some(7), !.camera_model = Some("GoPro")],
       cells |-> None],
      [mtime |-> 2,
       exif |-> [NoExif EXCEPT !.dt_text = Some([date |-> [fmt |-> "%Y-%m-%d", ymd |-> "20240102"],
                                                 tod |-> 9])],
       cells |-> Some([NoCells EXCEPT !.gps_seconds = Some(0), !.latitude = Some(0),
                                      !.longitude = Some(0)])],
      [mtime |-> 1,
       exif |-> [NoExif EXCEPT !.gps_lat = Some(46)],
       cells |-> Some([NoCells EXCEPT !.heading = Some(90)])] }

\* the image at place << f, i >> of the input tree
Image(path, profile) ==
    [path |-> path, key |-> path[2], name |-> "IMG" \o Digit(path[2]) \o ".jpg",
     ext |-> ".jpg", mtime |-> profile.mtime, exif |-> profile.exif]

\* a folder: the runs of 8 digits in its name, its images as the scan lists them,
\* its pose csv when a row exists (readable or not), its point-cloud files
Folder(f, order, profs, runs, ok, lidar) ==
    LET with_row == {i \in DOMAIN profs : profs[i].cells # None}
    IN [runs |-> runs,
        images |-> [k \in DOMAIN order |-> Image(<< f, order[k] >>, profs[order[k]])],
        csv |-> IF with_row = {} THEN None
                ELSE Some([ok |-> ok, rows |-> [i \in with_row |-> profs[i].cells[1]]]),
        lidar |-> lidar,
        faults |-> {}]

Ascending(n) == [k \in 1..n |-> k]

FolderNames == { << >>, << "20249999", "20240105" >> }

\* the folders a multi-folder run can find: 1..MaxFolders folders, each with an image
MultiFolders(n) ==
    UNION { { << Folder(1, Ascending(n), profs, runs, ok, << >>) >> :
                profs \in [1..n -> Profiles], runs \in FolderNames, ok \in BOOLEAN },
            IF MaxFolders < 2 THEN {} ELSE
            { << Folder(1, Ascending(k), SubSeq(profs, 1, k), runs1, ok, << >>),
                 Folder(2, Ascending(n - k), SubSeq(profs, k + 1, n), runs2, ok, << >>) >> :
                profs \in [1..n -> Profiles], k \in 1..(n - 1),
                runs1 \in FolderNames, runs2 \in FolderNames, ok \in BOOLEAN } }

Regions == {"Nyon", "HSN"}

InitState(a, fs) ==
    /\ args = a
    /\ folders = fs
    /\ pc = "main"
    /\ status = None
    /\ plans = << >>
    /\ plan_i = 0
    /\ call = NoCall
    /\ grouped = << >>
    /\ group_i = 0
    /\ sums = [total |-> 0, lidar_total |-> 0]
    /\ acq = NoAcq
    /\ files = NoFiles
    /\ dirs = {}
    /\ rendered = << >>
    /\ processed = << >>
    /\ log = {}
    /\ report = [total |-> 0, lidar_total |-> 0, acquisition_total |-> 0]

\* a single-folder run: any arguments, 0..MaxImages images
InitSingle ==
    \E n \in 0..MaxImages :
    \E profs \in [1..n -> Profiles], ok \in BOOLEAN :
    \E lidar_arg \in { << "none", << >> >>, << "auto", << >> >>, << "auto", << ScanLaz >> >>,
                       << "path", << ScanLaz >> >>, << "path", << >> >>,
                       << "missing", << >> >> } :
    \E region \in {"Nyon", "!!"}, pose_csv \in {"none", "auto", "path"},
       sensor \in {Some("auto"), Some("CamFront"), Some("!!")},
       max_per_seq \in 0..MaxPerSeq :
        LET folder == Folder(1, Ascending(n), profs, << >>, ok, lidar_arg[2])
        IN /\ pose_csv = "path" => folder.csv # None
           /\ (folder.csv = None => ok)
           /\ InitState([mode |-> "single", max_per_seq |-> max_per_seq, region |-> region,
                         sensor |-> sensor, typed_sensor |-> "", pose_csv |-> pose_csv,
                         pose_epoch |-> "gps", batch |-> << >>,
                         lidar_path |-> lidar_arg[1]],
                        << folder >>)

\* a multi-folder run (no arguments): what is typed for each folder, or nothing
InitMulti ==
    \E n \in 1..MaxImages :
    \E fs \in MultiFolders(n), max_per_seq \in 1..MaxPerSeq :
    \E batch \in {<< >>} \cup [1..Len(fs) -> [region : Regions, sensor : {Some("CamFront")}]] :
        /\ InitState([mode |-> "multi", max_per_seq |-> max_per_seq, region |-> "",
                      sensor |-> None, typed_sensor |-> "", pose_csv |-> "none",
                      pose_epoch |-> "gps", batch |-> batch,
                      lidar_path |-> "none"],
                     fs)

Init == InitSingle \/ InitMulti

Next ==
    \/ Main
    \/ MultiCollect
    \/ MultiPlan
    \/ MultiAccumulate
    \/ MultiFinish
    \/ SingleSetup
    \/ SingleBuild
    \/ SingleFinish
    \/ GroupRecords
    \/ AcqStart
    \/ RenderFrame
    \/ EmitAggregate
    \/ AcqReturn

Spec == Init /\ [][Next]_vars

(* A single-folder run with valid arguments, over richer folders:            *)
(*  - one image, with every combination of embedded GPS and pose cells;     *)
(*  - up to MaxRecords images with every combination of sort keys, listed   *)
(*    by the scan in any order;                                              *)
(*  - up to MaxRecords images of the kinds above (Profiles).                *)

EmbeddedGps ==
    { [NoExif EXCEPT !.gps_lat = lat, !.gps_lon = lon, !.gps_alt = alt,
                     !.gps_date = stamp[1], !.gps_time = stamp[2]] :
        lat \in {None, Some(46)}, lon \in {None, Some(6)}, alt \in {None, Some(400)},
        stamp \in { << None, None >>,
                    << Some([fmt |-> "%Y:%m:%d", ymd |-> "20240101"]), Some(7) >> } }

PoseCells ==
    { [NoCells EXCEPT !.gps_seconds = sec, !.latitude = lat, !.longitude = lon,
                      !.altitude = alt, !.heading = heading] :
        sec \in {None, Some(0)}, lat \in {None, Some(0), Some(47)},
        lon \in {None, Some(0), Some(7)}, alt \in {None, Some(0), Some(500)},
        heading \in {None, Some(0)} }

FusionFolders ==
    { Folder(1, Ascending(1), << [mtime |-> 1, exif |-> exif, cells |-> cells] >>,
             << >>, TRUE, << >>) :
        exif \in EmbeddedGps, cells \in {None} \cup { Some(c) : c \in PoseCells } }

\* what decides the sort key of an image
KeyKinds ==
    LET dated == [NoExif EXCEPT !.dt_text = Some([date |-> [fmt |-> "%Y:%m:%d", ymd |-> "19800106"],
                                                  tod |-> 0])]
    IN { [mtime |-> 1, exif |-> dated, cells |-> None],
         [mtime |-> 2, exif |-> dated, cells |-> Some(NoCells)],
         [mtime |-> 2, exif |-> NoExif, cells |-> Some([NoCells EXCEPT !.gps_seconds = Some(0)])],
         [mtime |-> 1, exif |-> NoExif, cells |-> Some([NoCells EXCEPT !.gps_seconds = Some(1)])] }

Orders(n) == { o \in [1..n -> 1..n] : \A i, j \in 1..n : i # j => o[i] # o[j] }

OrderingFolders ==
    UNION { { Folder(1, order, profs, << >>, TRUE, << >>) :
                profs \in [1..n -> KeyKinds], order \in Orders(n) } : n \in 1..MaxRecords }

\* what decides the coordinate-system descriptor: embedded or pose-supplied
\* coordinates, with or without an embedded altitude reference
GpsKinds ==
    { [mtime |-> 1, exif |-> NoExif, cells |-> None],
      [mtime |-> 2, exif |-> [NoExif EXCEPT !.gps_lat = Some(46), !.gps_lon = Some(6)],
       cells |-> None],
      [mtime |-> 1,
       exif |-> [NoExif EXCEPT !.gps_lat = Some(46), !.gps_lon = Some(6),
                               !.gps_alt_ref = Some("above_sea_level")],
       cells |-> None],
      [mtime |-> 1,
       exif |-> [NoExif EXCEPT !.gps_lat = Some(46), !.gps_alt_ref = Some("below_sea_level")],
       cells |-> Some([NoCells EXCEPT !.longitude = Some(7)])],
      [mtime |-> 1, exif |-> NoExif,
       cells |-> Some([NoCells EXCEPT !.latitude = Some(47), !.longitude = Some(7)])] }

DescriptorFolders ==
    UNION { { Folder(1, Ascending(n), profs, << >>, TRUE, << >>) :
                profs \in [1..n -> GpsKinds] } : n \in 1..MaxRecords }

RowFolders ==
    UNION { { Folder(1, Ascending(n), profs, << >>, TRUE, << >>) :
                profs \in [1..n -> Profiles] } : n \in 1..MaxRecords }

InitValidSingle ==
    \E folder \in FusionFolders \cup OrderingFolders \cup RowFolders \cup DescriptorFolders :
    \E max_per_seq \in IF folder \in FusionFolders THEN {1}
                        ELSE IF folder \in RowFolders THEN 1..MaxPerSeq ELSE {MaxPerSeq} :
        InitState([mode |-> "single", max_per_seq |-> max_per_seq, region |-> "Nyon",
                   sensor |-> Some("CamFront"), typed_sensor |-> "", pose_csv |-> "auto",
                   pose_epoch |-> "gps", batch |-> << >>,
                   lidar_path |-> "auto"],
                  << folder >>)

NextSingle ==
    \/ Main
    \/ SingleSetup
    \/ SingleBuild
    \/ SingleFinish
    \/ GroupRecords
    \/ AcqStart
    \/ RenderFrame
    \/ EmitAggregate
    \/ AcqReturn

SpecSingle == InitValidSingle /\ [][NextSingle]_vars

\* single-folder runs in which at most one copy or write of a frame fails
FaultyFolders ==
    { [folder EXCEPT !.faults = faults] :
        folder \in RowFolders,
        faults \in { {} } \cup { { << i, call_ >> } : i \in 1..MaxRecords, call_ \in {"copy", "write"} } }
    \cup { [folder EXCEPT !.lidar = << ScanLaz >>] : folder \in RowFolders }

InitIO ==
    \E folder \in FaultyFolders :
    \E max_per_seq \in 1..MaxPerSeq :
        /\ \A fault \in folder.faults : fault[1] <= Len(folder.images)
        /\ InitState([mode |-> "single", max_per_seq |-> max_per_seq, region |-> "Nyon",
                      sensor |-> Some("CamFront"), typed_sensor |-> "", pose_csv |-> "auto",
                      pose_epoch |-> "gps", batch |-> << >>, lidar_path |-> "auto"],
                     << folder >>)

SpecIO == InitIO /\ [][NextSingle]_vars

(* ------------------ the functions of processing.py alone ------------- *)

\* A function called on its own: call holds the function and its arguments, report
\* the value returned.
TimestampTexts ==
    { [date |-> [fmt |-> fmt, ymd |-> ymd], tod |-> 0] :
        fmt \in {"%Y-%m-%d", "%d/%m/%Y"}, ymd \in {"19800106", "20240105", "20249999"} }

DateCalls ==
    { [fn |-> "choose_acquisition_date", default_date |-> default_date, csv_pose |-> csv_pose] :
        default_date \in ValidDates,
        csv_pose \in {None, Some(EmptyDict)}
                    \cup { Some([PoseRow(1, NoCells, "gps") EXCEPT !["timestamp"] = ts]) :
                             ts \in {None} \cup { Some(t) : t \in TimestampTexts } } }

TrajectoryRows ==
    { [frame_index |-> Some(1), image_name |-> Some("IMG1.jpg"), timestamp |-> None,
       gps_latitude |-> lat, gps_longitude |-> lon, gps_altitude_m |-> alt,
       heading_deg |-> None, pitch_deg |-> None, roll_deg |-> None] :
        lat \in {None, Some(46)}, lon \in {None, Some(6), Some(7)}, alt \in {None, Some(400)} }

TrackCalls ==
    { [fn |-> "build_geojson_track", rows |-> rows] :
        rows \in UNION { [1..n -> TrajectoryRows] : n \in 0..MaxRecords } }

\* point-cloud files in the input folder and in the point-cloud folder of the
\* acquisition, with and without the prefix of an acquisition
LidarFiles ==
    { [dir |-> dir, name |-> name] :
        dir \in {"in", "19700101-Nyon/06_point_clouds"},
        name \in { << "scan.laz" >>, << "19700101-Nyon_", "scan.laz" >>,
                   << "19700101-NYON_", "scan.laz" >>, << "20240101-Nyon_", "scan.laz" >> } }

LidarCalls ==
    { [fn |-> "copy_lidar_assets", acquisition_root |-> "19700101-Nyon",
       acquisition_id |-> "19700101-Nyon", lidar_paths |-> lidar_paths] :
        lidar_paths \in UNION { [1..n -> LidarFiles] : n \in 0..MaxRecords } }

InitCall ==
    /\ call \in DateCalls \cup TrackCalls \cup LidarCalls
    /\ pc = "call"
    /\ report = None
    /\ args = << >> /\ folders = << >> /\ status = None /\ plans = << >> /\ plan_i = 0
    /\ grouped = << >> /\ group_i = 0 /\ sums = [total |-> 0, lidar_total |-> 0]
    /\ acq = NoAcq /\ files = NoFiles /\ dirs = {} /\ rendered = << >>
    /\ processed = << >> /\ log = {}

Return(value) ==
    /\ report' = value
    /\ pc' = "return"
    /\ UNCHANGED << args, folders, status, plans, plan_i, call, grouped, group_i, sums, acq,
                    files, dirs, rendered, processed, log >>

CallChooseAcquisitionDate ==
    /\ pc = "call" /\ call.fn = "choose_acquisition_date"
    /\ Return(choose_acquisition_date(call.default_date, call.csv_pose))

CallBuildGeojsonTrack ==
    /\ pc = "call" /\ call.fn = "build_geojson_track"
    /\ Return(build_geojson_track(call.rows, "19800106-Nyon", "S001", "CamFront"))

CallCopyLidarAssets ==
    /\ pc = "call" /\ call.fn = "copy_lidar_assets"
    /\ Return(copy_lidar_assets(call.acquisition_root, call.acquisition_id, call.lidar_paths))

NextCall ==
    \/ CallChooseAcquisitionDate
    \/ CallBuildGeojsonTrack
    \/ CallCopyLidarAssets

SpecCall == InitCall /\ [][NextCall]_vars

(* ------------------------------- claims ------------------------------- *)

CeilDiv(p, m) == CHOOSE k \in 1..p : (k - 1) * m < p /\ p <= k * m

\* the frames rendered by the current call of process_acquisition
CurrentFrames == { i \in DOMAIN rendered : rendered[i].call_no = acq.call_no }

\* C1: the record at position p of the sorted acquisition gets sequence index
\* ceil(p / max_per_seq) and frame index ((p-1) mod max_per_seq) + 1, so that
\* 1 <= frame_index <= max_per_seq and frame_index is its rank within its sequence.
C1_PositionDecidesIds ==
    \A i \in DOMAIN rendered :
        LET e == rendered[i]
            m == args.max_per_seq
            k == CeilDiv(e.position, m)
            rank == Cardinality({ j \in 1..i : /\ rendered[j].call_no = e.call_no
                                               /\ rendered[j].sequence_id = e.sequence_id })
        IN /\ e.sequence_id = "S" \o FormatInt(k, 3)
           /\ e.frame_index = e.position - (k - 1) * m
           /\ e.frame_id = FormatInt(e.frame_index, 6)
           /\ 1 <= e.frame_index /\ e.frame_index <= m
           /\ e.frame_index = rank
           /\ (i \in CurrentFrames => acq.records[e.position].src = e.src)

C1_Witness ==
    \E i \in DOMAIN rendered :
        /\ args.max_per_seq = 2
        /\ rendered[i].position = 3
        /\ rendered[i].sequence_id = "S002"
        /\ rendered[i].frame_index = 1

\* C2: when process_acquisition completes, the sequence sizes sum to the number of
\* records of the acquisition, the sequence ids are S001, S002, ... without gap, and
\* every sequence but the last holds max_per_seq frames, the last 1..max_per_seq.
RECURSIVE SumSizes(_)
SumSizes(od) == IF od = << >> THEN 0 ELSE Len(Head(od).items) + SumSizes(Tail(od))

C2_SequenceSizes ==
    pc = "acquired" =>
        LET seqs == acq.poses_by_sequence
            m == args.max_per_seq
        IN /\ SumSizes(seqs) = Len(grouped[group_i].items)
           /\ \A s \in DOMAIN seqs : seqs[s].key = "S" \o FormatInt(s, 3)
           /\ \A s \in DOMAIN seqs : s < Len(seqs) => Len(seqs[s].items) = m
           /\ Len(seqs) >= 1
           /\ 1 <= Len(seqs[Len(seqs)].items) /\ Len(seqs[Len(seqs)].items) <= m

C2_Witness ==
    /\ pc = "acquired"
    /\ args.max_per_seq = 2
    /\ Len(acq.poses_by_sequence) = 2
    /\ Len(acq.poses_by_sequence[1].items) = 2
    /\ Len(acq.poses_by_sequence[2].items) = 1

\* C3: for fixed records and max_per_seq, every permutation of the list given to
\* process_acquisition yields the same (sequence_id, frame_id) for each source path.
Assignment(sorted, m) ==
    { << sorted[i].src, sequence_ids(i, m)[1], sequence_ids(i, m)[2] >> : i \in DOMAIN sorted }

Permuted(items, order) == [k \in DOMAIN items |-> items[order[k]]]

C3_OrderIndependent ==
    pc = "acquired" =>
        LET items == grouped[group_i].items
            actual == { << rendered[i].src, rendered[i].sequence_id, rendered[i].frame_id >> :
                          i \in CurrentFrames }
        IN \A order \in Orders(Len(items)) :
              Assignment(SortRecords(Permuted(items, order)), args.max_per_seq) = actual

C3_Witness ==
    /\ pc = "acquired"
    /\ \E i, j \in DOMAIN grouped[group_i].items :
          LET a == grouped[group_i].items[i]
              b == grouped[group_i].items[j]
          IN /\ i < j
             /\ PathLess(b.src, a.src)
             /\ a.csv_pose = None /\ b.csv_pose = None
             /\ a.mtime = b.mtime

\* C4: across a whole run, a multi-folder run included, no two distinct source
\* images are rendered under the same naming key
\* {acquisition_id}_{sequence_id}_{sensor_id}_{frame_id}.
C4_NamingKeyUnique ==
    \A i, j \in DOMAIN rendered :
        rendered[i].key = rendered[j].key => rendered[i].src = rendered[j].src

\* the image of the input tree at a source path, and its row of the pose lookup
ImageAt(src) == CHOOSE im \in Range(folders[src[1]].images) : im.path = src

AttachedPose(src) ==
    IF ImageAt(src).key \in DOMAIN call.pose_lookup
    THEN Some(call.pose_lookup[ImageAt(src).key]) ELSE None

\* the embedded GPS values of an image, under the keys of the gps sub-tree
EmbeddedValue(src, gps_key) ==
    LET exif == ImageAt(src).exif
    IN CASE gps_key = "latitude_deg" -> exif.gps_lat
         [] gps_key = "longitude_deg" -> exif.gps_lon
         [] gps_key = "altitude_m" -> exif.gps_alt
         [] OTHER -> gps_datetime_utc(exif.gps_date, exif.gps_time)

AnnotationGps(e, gps_key) ==
    IF "gps" \in DOMAIN e.annotation THEN Get(e.annotation["gps"][1], gps_key) ELSE None

OverrideFields ==
    { << "latitude_deg", "gps_latitude" >>, << "longitude_deg", "gps_longitude" >>,
      << "altitude_m", "gps_altitude_m" >>, << "timestamp_utc", "timestamp" >> }

\* C5: with a PoseRecord attached, each of latitude, longitude, altitude, timestamp
\* that the PoseRecord supplies replaces the embedded value in the rendered
\* annotation; a field it leaves null keeps the embedded value.
C5_PoseOverridesEmbedded ==
    \A i \in DOMAIN rendered :
        LET e == rendered[i]
            pose == AttachedPose(e.src)
        IN pose # None =>
             \A f \in OverrideFields :
                AnnotationGps(e, f[1]) =
                    IF pose[1][f[2]] # None THEN pose[1][f[2]] ELSE EmbeddedValue(e.src, f[1])

C5_Witness ==
    \E i \in DOMAIN rendered :
        LET e == rendered[i]
            pose == AttachedPose(e.src)
        IN /\ pose # None
           /\ pose[1]["gps_latitude"] = Some(0)
           /\ EmbeddedValue(e.src, "latitude_deg") = Some(46)
           /\ AnnotationGps(e, "latitude_deg") = Some(0)
           /\ pose[1]["gps_longitude"] = None
           /\ AnnotationGps(e, "longitude_deg") = Some(6)

DataFields ==
    { "timestamp", "gps_latitude", "gps_longitude", "gps_altitude_m",
      "heading_deg", "pitch_deg", "roll_deg" }

RowHasData(row) == \E f \in DataFields : row[f] # None

CsvPath(sequence_id) == acq.acquisition_id \o "/02_poses/" \o sequence_id \o "_trajectory.csv"

GeoJsonPath(sequence_id) ==
    acq.acquisition_id \o "/02_poses/" \o sequence_id \o "_trajectory.geojson"

\* written while this acquisition was processed, and on disk
Emitted(path) == path \in Range(acq.written) /\ path \in DOMAIN files

\* C6: after an acquisition is processed, the trajectory CSV of a sequence exists
\* iff some accumulated row of that sequence has a value in one of timestamp,
\* latitude, longitude, altitude, heading, pitch, roll; the decision is per sequence.
C6_CsvIffSequenceHasData ==
    pc = "acquired" =>
        \A s \in DOMAIN acq.poses_by_sequence :
            LET seq == acq.poses_by_sequence[s]
            IN Emitted(CsvPath(seq.key)) <=> \E r \in DOMAIN seq.items : RowHasData(seq.items[r])

C6_Witness ==
    /\ pc = "acquired"
    /\ \E s, t \in DOMAIN acq.poses_by_sequence :
          /\ Emitted(CsvPath(acq.poses_by_sequence[s].key))
          /\ ~Emitted(CsvPath(acq.poses_by_sequence[t].key))
          /\ \E r \in DOMAIN acq.poses_by_sequence[s].items :
                ~RowHasData(acq.poses_by_sequence[s].items[r])

\* C7: after an acquisition is processed, the trajectory GeoJSON of a sequence exists
\* iff its trajectory CSV exists and at least 2 of its rows have both latitude and
\* longitude.
LocatedRows(rows) ==
    { r \in DOMAIN rows : rows[r]["gps_latitude"] # None /\ rows[r]["gps_longitude"] # None }

C7_GeoJsonIffCsvAndTwoPoints ==
    pc = "acquired" =>
        \A s \in DOMAIN acq.poses_by_sequence :
            LET seq == acq.poses_by_sequence[s]
            IN Emitted(GeoJsonPath(seq.key)) <=>
                  (Emitted(CsvPath(seq.key)) /\ Cardinality(LocatedRows(seq.items)) >= 2)

C7_Witness ==
    /\ pc = "acquired"
    /\ \E s, t \in DOMAIN acq.poses_by_sequence :
          /\ Emitted(GeoJsonPath(acq.poses_by_sequence[s].key))
          /\ Cardinality(LocatedRows(acq.poses_by_sequence[s].items)) = 2
          /\ Emitted(CsvPath(acq.poses_by_sequence[t].key))
          /\ ~Emitted(GeoJsonPath(acq.poses_by_sequence[t].key))
          /\ Cardinality(LocatedRows(acq.poses_by_sequence[t].items)) = 1

\* C8: process_records_by_acquisition partitions the records by "{date}-{region}":
\* each record is in exactly one group, once; the records of a group share its key;
\* the groups are processed in the order in which their keys first appear.
KeyOf(rec) == rec.acquisition_date \o "-" \o call.region

FirstSeen(key) == CHOOSE i \in DOMAIN call.records :
                     /\ KeyOf(call.records[i]) = key
                     /\ \A j \in DOMAIN call.records : KeyOf(call.records[j]) = key => i <= j

Grouped == pc \in {"acquisition", "frame", "aggregate", "acquired", "returned"}

C8_GroupsPartitionInFirstSeenOrder ==
    Grouped =>
        /\ SumSizes(grouped) = Len(call.records)
        /\ \A i \in DOMAIN call.records :
              Cardinality({ gj \in { << g, j >> : g \in DOMAIN grouped, j \in 1..MaxRecords } :
                              /\ gj[2] <= Len(grouped[gj[1]].items)
                              /\ grouped[gj[1]].items[gj[2]] = call.records[i] }) = 1
        /\ \A g \in DOMAIN grouped :
              \A j \in DOMAIN grouped[g].items : KeyOf(grouped[g].items[j]) = grouped[g].key
        /\ \A g, h \in DOMAIN grouped : g < h => FirstSeen(grouped[g].key) < FirstSeen(grouped[h].key)
        /\ \A n \in DOMAIN processed : processed[n] = grouped[n].key
        /\ (pc = "returned" => Len(processed) = Len(grouped))

C8_Witness ==
    /\ pc = "returned"
    /\ Len(grouped) = 2
    /\ Len(call.records) = 3
    /\ KeyOf(call.records[1]) = KeyOf(call.records[3])
    /\ KeyOf(call.records[1]) # KeyOf(call.records[2])
    /\ processed = << KeyOf(call.records[1]), KeyOf(call.records[2]) >>

\* the date the embedded metadata gives, if any
EmbeddedDate(image) ==
    LET gps_date_code == parse_exif_date(image.exif.gps_date)
    IN IF gps_date_code # None THEN gps_date_code
       ELSE IF image.exif.dt_text # None
            THEN parse_exif_date(DatePortion(image.exif.dt_text[1]))
            ELSE None

HasPoseDate(rec) ==
    /\ rec.csv_pose # None
    /\ Get(rec.csv_pose[1], "timestamp") # None
    /\ parse_exif_date(DatePortion(rec.csv_pose[1]["timestamp"][1])) # None

\* C9: a record without a pose-derived date gets the date of the folder name when
\* the name carries one, else the date of the embedded metadata, else the date of the
\* file modification time; a dated folder name dates every image of the folder.
C9_FolderDateFirst ==
    \A i \in DOMAIN call.records :
        LET rec == call.records[i]
            image == ImageAt(rec.src)
            folder_date == date_from_folder_name(folders[rec.src[1]].runs)
        IN ~HasPoseDate(rec) =>
              rec.acquisition_date =
                  IF folder_date # None THEN folder_date[1]
                  ELSE IF EmbeddedDate(image) # None THEN EmbeddedDate(image)[1]
                  ELSE MtimeDate(image.mtime)

\* the pose source of the run was located by searching, not named by the caller
AutoLocated == args.mode = "multi" \/ args.pose_csv = "auto"

\* a located pose source was read and the read failed
LoadFailed ==
    IF args.mode = "multi"
    THEN /\ args.batch # << >>
         /\ \E f \in DOMAIN folders :
               folders[f].images # << >> /\ folders[f].csv # None /\ ~folders[f].csv[1].ok
    ELSE /\ normalize_token(args.region) # None
         /\ args.max_per_seq > 0
         /\ folders[1].csv # None /\ ~folders[1].csv[1].ok

\* C10: when an auto-located pose source fails to load, in a multi-folder run or with
\* --pose-csv auto, the failure is logged, the run goes on with an empty lookup and
\* the images are rendered.
C10_AutoLocatedSoftFail ==
    (pc = "done" /\ AutoLocated /\ LoadFailed /\ log \subseteq {"Failed to read pose CSV"}) =>
        /\ "Failed to read pose CSV" \in log
        /\ status = Some(0)
        /\ \A f \in DOMAIN folders : \A k \in DOMAIN folders[f].images :
              \E i \in DOMAIN rendered : rendered[i].src = folders[f].images[k].path

\* the arguments of a single-folder run hold a configuration error
ConfigurationError ==
    \/ args.max_per_seq <= 0
    \/ /\ args.mode = "single"
       /\ \/ args.region \in {"", "!!"}
          \/ args.sensor = Some("!!")
          \/ /\ args.sensor = Some("auto")
             /\ \/ folders[1].images = << >>
                \/ folders[1].images[1].exif.camera_model = None

\* a pose csv or point-cloud path named by the caller cannot be used
ExplicitPathError ==
    /\ args.mode = "single"
    /\ \/ args.pose_csv = "path" /\ ~folders[1].csv[1].ok
       \/ args.lidar_path = "missing"
       \/ args.lidar_path = "path" /\ folders[1].lidar = << >>

\* C11: a run that ends with a configuration error or with an explicit-path
\* collaborator error returns a non-zero status, has written no output file and has
\* created no output directory.
C11_FatalBeforeAnyOutput ==
    (pc = "done" /\ (ConfigurationError \/ ExplicitPathError)) =>
        /\ status # None /\ status # Some(0)
        /\ files = NoFiles
        /\ dirs = {}
        /\ rendered = << >>

C11_Witness ==
    /\ pc = "done"
    /\ status = Some(1)
    /\ args.lidar_path = "missing"
    /\ ~ConfigurationError
    /\ folders[1].images # << >>
    /\ files = NoFiles /\ dirs = {}

\* every argument of a single-folder run is valid, --sensor auto included
ValidArguments ==
    /\ args.mode = "single"
    /\ args.max_per_seq > 0
    /\ args.region \notin {"", "!!"}
    /\ args.sensor # Some("!!")
    /\ ~ExplicitPathError

\* C12: when the input folder holds no JPEG image, the run exits with status 0 and
\* has written nothing, whatever the other valid arguments are, --sensor auto with no
\* metadata default included.
C12_EmptyInputIsNotAnError ==
    (pc = "done" /\ ValidArguments /\ folders[1].images = << >>) =>
        /\ status = Some(0)
        /\ files = NoFiles
        /\ dirs = {}

\* the run ended in the traceback of a failed copy or write
Aborted == pc = "done" /\ "Traceback" \in log

AllFaults == UNION { { << f, fault[1], fault[2] >> : fault \in folders[f].faults } :
                       f \in DOMAIN folders }

ImagePathOf(e) ==
    e.acquisition_id \o "/01_images/" \o e.sequence_id \o "/" \o e.key \o ".jpg"

AnnotationPathOf(e) ==
    e.acquisition_id \o "/04_annotations/" \o e.sequence_id \o "/" \o e.key \o ".json"

\* C13: when the copy or the write of frame k of an acquisition fails, the run
\* aborts: no later frame of the acquisition and no frame of a later acquisition is
\* rendered, nothing is retried, and what was written before stays on disk unchanged.
C13_FailureAbortsAndKeepsFiles ==
    /\ (pc = "done" /\ AllFaults # {}) => Aborted
    /\ Aborted =>
          /\ status = Some(1)
          /\ \A fault \in AllFaults :
                /\ acq.records[acq.idx].src = << fault[1], fault[2] >>
                /\ \A i \in DOMAIN rendered : rendered[i].src # << fault[1], fault[2] >>
          /\ Len(processed) = group_i
          /\ \A i \in CurrentFrames : rendered[i].position < acq.idx
          /\ Cardinality(CurrentFrames) = acq.idx - 1
          /\ \A i \in DOMAIN rendered :
                /\ ImagePathOf(rendered[i]) \in DOMAIN files
                /\ files[ImagePathOf(rendered[i])] = Some([image_of |-> rendered[i].src])
                /\ AnnotationPathOf(rendered[i]) \in DOMAIN files
                /\ files[AnnotationPathOf(rendered[i])] = Some(rendered[i].annotation)
          /\ \A path \in Range(acq.written) : path \in DOMAIN files

C13_Witness ==
    /\ Aborted
    /\ acq.idx = 2
    /\ group_i = 1
    /\ Len(grouped) = 2
    /\ Len(rendered) = 1
    /\ Len(acq.records) = 2
    /\ ImagePathOf(rendered[1]) \in DOMAIN files

\* every path process_acquisition and copy_lidar_assets can write for an acquisition
AcquisitionTree(id) ==
    LET Seqs == { "S" \o FormatInt(k, 3) : k \in 1..MaxRecords }
        Keys(seq) == { id \o "_" \o seq \o "_" \o call.sensor_id \o "_" \o FormatInt(n, 6) :
                         n \in 1..MaxRecords }
    IN { id \o "/02_poses/coordinate_systems.json", id \o "/03_calibration/intrinsics.json" }
       \cup { id \o "/02_poses/" \o seq \o "_trajectory.csv" : seq \in Seqs }
       \cup { id \o "/02_poses/" \o seq \o "_trajectory.geojson" : seq \in Seqs }
       \cup UNION { { id \o "/01_images/" \o seq \o "/" \o key \o ".jpg" : key \in Keys(seq) } :
                      seq \in Seqs }
       \cup UNION { { id \o "/04_annotations/" \o seq \o "/" \o key \o ".json" : key \in Keys(seq) } :
                      seq \in Seqs }
       \cup { id \o "/06_point_clouds/" \o id \o "_" \o name : name \in {"scan.laz"} }

Touched(before, after) ==
    { path \in DOMAIN after : path \notin DOMAIN before \/ before[path] # after[path] }

SeqNo(e) == CHOOSE k \in 1..MaxRecords : e.sequence_id = "S" \o FormatInt(k, 3)

\* C14: all output of an acquisition is written before any output of the next one in
\* first-seen order, and the frames of an acquisition are rendered in strictly
\* increasing position: sequence index ascending, then frame index ascending.
C14_OneAcquisitionAtATime ==
    [][ /\ Touched(files, files') # {} =>
              /\ group_i \in DOMAIN grouped
              /\ Touched(files, files') \subseteq AcquisitionTree(grouped[group_i].key)
              /\ Len(processed') = group_i
              /\ processed' = [n \in 1..group_i |-> grouped[n].key]
        /\ \A g, h \in DOMAIN grouped : g # h => grouped[g].key # grouped[h].key
        /\ group_i' >= group_i
        /\ \A i, j \in DOMAIN rendered' :
              i < j =>
                 /\ rendered'[i].call_no <= rendered'[j].call_no
                 /\ rendered'[i].call_no = rendered'[j].call_no =>
                       /\ rendered'[i].position < rendered'[j].position
                       /\ \/ SeqNo(rendered'[i]) < SeqNo(rendered'[j])
                          \/ /\ SeqNo(rendered'[i]) = SeqNo(rendered'[j])
                             /\ rendered'[i].frame_index < rendered'[j].frame_index
      ]_vars

C14_Witness ==
    /\ pc = "acquired"
    /\ group_i = 2
    /\ call.lidar_paths # << >>
    /\ Len(rendered) = 3
    /\ rendered[1].call_no = 1 /\ rendered[2].call_no = 1 /\ rendered[3].call_no = 2
    /\ SeqNo(rendered[1]) = 1 /\ SeqNo(rendered[2]) = 2
    /\ (grouped[1].key \o "/06_point_clouds/" \o grouped[1].key \o "_scan.laz") \in DOMAIN files

HasEpochSeconds(rec) == rec.csv_pose # None /\ Get(rec.csv_pose[1], "gps_seconds") # None

PrimaryValue(rec) == IF HasEpochSeconds(rec) THEN rec.csv_pose[1]["gps_seconds"][1] ELSE rec.mtime

\* C15: after the sort of process_acquisition the records with a PoseRecord that has
\* epoch seconds come first, ascending by epoch seconds; the others follow, ascending
\* by modification time; equal primary values are ordered by source path.
C15_SortedOrder ==
    pc \in {"frame", "aggregate", "acquired"} =>
        /\ \A i, j \in DOMAIN acq.records :
              i < j =>
                 LET a == acq.records[i]
                     b == acq.records[j]
                 IN /\ HasEpochSeconds(b) => HasEpochSeconds(a)
                    /\ HasEpochSeconds(a) = HasEpochSeconds(b) =>
                          /\ PrimaryValue(a) <= PrimaryValue(b)
                          /\ PrimaryValue(a) = PrimaryValue(b) => PathLess(a.src, b.src)
        /\ Len(acq.records) = Len(grouped[group_i].items)
        /\ Range(acq.records) = Range(grouped[group_i].items)

C15_Witness ==
    /\ pc = "frame"
    /\ Len(acq.records) = 3
    /\ HasEpochSeconds(acq.records[1])
    /\ ~HasEpochSeconds(acq.records[2]) /\ ~HasEpochSeconds(acq.records[3])
    /\ acq.records[2].mtime = acq.records[3].mtime
    /\ acq.records[1].mtime > acq.records[2].mtime
    /\ acq.records # grouped[group_i].items

Returned(fn) == pc = "return" /\ call.fn = fn

\* the timestamp of the pose row, when its date portion is a valid date
PoseDate(csv_pose) ==
    IF csv_pose = None \/ csv_pose = Some(EmptyDict) THEN None
    ELSE IF csv_pose[1]["timestamp"] = None THEN None
    ELSE LET text == csv_pose[1]["timestamp"][1].date
         IN IF text.fmt \in {"%Y:%m:%d", "%Y-%m-%d", "%Y%m%d"} /\ text.ymd \in ValidDates
            THEN Some(text.ymd) ELSE None

\* C16: a PoseRecord timestamp whose date portion is a valid date decides the
\* acquisition date whatever the prior candidate; without PoseRecord, without
\* timestamp or with a date portion that does not parse the prior candidate is kept.
C16_PoseDateWins ==
    Returned("choose_acquisition_date") =>
        report = IF PoseDate(call.csv_pose) # None THEN PoseDate(call.csv_pose)[1]
                 ELSE call.default_date

C16_Witness ==
    /\ Returned("choose_acquisition_date")
    /\ call.default_date = "20240101"
    /\ PoseDate(call.csv_pose) = None
    /\ call.csv_pose # None /\ call.csv_pose # Some(EmptyDict)
    /\ call.csv_pose[1]["timestamp"] # None
    /\ call.csv_pose[1]["timestamp"][1].date.ymd = "20249999"
    /\ report = "20240101"

Qualifying(rows) ==
    { i \in DOMAIN rows : rows[i]["gps_latitude"] # None /\ rows[i]["gps_longitude"] # None }

\* the k-th qualifying row, in row order
NthQualifying(rows, k) ==
    CHOOSE i \in Qualifying(rows) : Cardinality({ j \in Qualifying(rows) : j <= i }) = k

\* C19: build_geojson_track puts the rows that have latitude and longitude into the
\* geometry in row order, point_count is their number, and altitude is all or
\* nothing: 3D coordinates and the altitude-units tag exactly when every qualifying
\* row has an altitude, else 2D coordinates and no tag.
C19_TrackGeometry ==
    Returned("build_geojson_track") =>
        LET rows == call.rows
            n == Cardinality(Qualifying(rows))
            all_alt == \A i \in Qualifying(rows) : rows[i]["gps_altitude_m"] # None
        IN IF n < 2 THEN report = None
           ELSE /\ report # None
                /\ report[1].point_count = n
                /\ Len(report[1].coordinates) = n
                /\ \A k \in 1..n :
                      LET row == rows[NthQualifying(rows, k)]
                          point == report[1].coordinates[k]
                      IN /\ point[1] = row["gps_longitude"][1]
                         /\ point[2] = row["gps_latitude"][1]
                         /\ Len(point) = IF all_alt THEN 3 ELSE 2
                         /\ all_alt => point[3] = row["gps_altitude_m"][1]
                /\ report[1].altitude_units = IF all_alt THEN Some("meters") ELSE None

C19_Witness ==
    /\ Returned("build_geojson_track")
    /\ Len(call.rows) = 3
    /\ Qualifying(call.rows) = {1, 3}
    /\ call.rows[1]["gps_altitude_m"] # None
    /\ call.rows[3]["gps_altitude_m"] = None
    /\ call.rows[1]["gps_longitude"] # call.rows[3]["gps_longitude"]
    /\ report # None
    /\ report[1].point_count = 2
    /\ Len(report[1].coordinates[1]) = 2

DescriptorPaths ==
    { acq.acquisition_id \o "/02_poses/coordinate_systems.json",
      acq.acquisition_id \o "/03_calibration/intrinsics.json" }

FramePaths ==
    UNION { { ImagePathOf(rendered[i]), AnnotationPathOf(rendered[i]) } : i \in CurrentFrames }

AggregatePaths ==
    UNION { { CsvPath(acq.poses_by_sequence[s].key), GeoJsonPath(acq.poses_by_sequence[s].key) } :
              s \in DOMAIN acq.poses_by_sequence }

\* the places of the write log of the current acquisition that hold a path of paths
WritesOf(paths) == { n \in DOMAIN acq.written : acq.written[n] \in paths }

\* C17 as stated: each descriptor of an acquisition is written at most once, after
\* all frames of the acquisition have been rendered and before any of its per-sequence
\* trajectory CSV or GeoJSON files.
C17_DescriptorsAfterFrames ==
    \A n \in WritesOf(DescriptorPaths) :
        /\ \A m \in WritesOf(DescriptorPaths) : acq.written[m] = acq.written[n] => m = n
        /\ Cardinality({ m \in WritesOf(FramePaths) : m < n }) = 2 * Len(acq.records)
        /\ \A m \in WritesOf(AggregatePaths) : n < m

\* C17: each descriptor of an acquisition is written at most once, before any frame
\* of the acquisition is rendered and before any of its per-sequence trajectory CSV or
\* GeoJSON files.
C17_DescriptorsBeforeFrames ==
    \A n \in WritesOf(DescriptorPaths) :
        /\ \A m \in WritesOf(DescriptorPaths) : acq.written[m] = acq.written[n] => m = n
        /\ \A m \in WritesOf(FramePaths) : n < m
        /\ \A m \in WritesOf(AggregatePaths) : n < m

C17_Witness ==
    /\ pc = "acquired"
    /\ Cardinality(WritesOf(DescriptorPaths)) = 2
    /\ Cardinality(WritesOf(FramePaths)) = 4
    /\ Cardinality(WritesOf(AggregatePaths)) >= 2
    /\ DescriptorPaths \subseteq DOMAIN files

\* the record has both coordinates in its merged GPS sub-tree
HasBothCoordinates(rec) ==
    /\ "gps" \in DOMAIN rec.derived
    /\ Get(rec.derived["gps"][1], "latitude_deg") # None
    /\ Get(rec.derived["gps"][1], "longitude_deg") # None

Located == { i \in DOMAIN acq.records : HasBothCoordinates(acq.records[i]) }

FirstLocated == acq.records[CHOOSE i \in Located : \A j \in Located : i <= j]

CoordinateSystemsPath == acq.acquisition_id \o "/02_poses/coordinate_systems.json"

\* C18: coordinate_systems.json is written for an acquisition iff one of its records
\* has both latitude and longitude in its merged GPS sub-tree; the altitude-reference
\* label of the file is the one of the first such record in processing order, and is
\* absent when that record has none, even if a later record has one.
C18_CoordinateSystems ==
    pc \in {"frame", "aggregate", "acquired"} =>
        /\ CoordinateSystemsPath \in DOMAIN files <=> Located # {}
        /\ Located # {} =>
              /\ files[CoordinateSystemsPath] # None
              /\ Get(files[CoordinateSystemsPath][1]["position"][1], "altitude_reference")
                   = Get(FirstLocated.derived["gps"][1], "altitude_ref")

C18_Witness ==
    /\ pc = "acquired"
    /\ Cardinality(Located) >= 2
    /\ FirstLocated.csv_pose # None
    /\ Get(FirstLocated.derived["gps"][1], "altitude_ref") = None
    /\ \E i \in Located : Get(acq.records[i].derived["gps"][1], "altitude_ref") # None
    /\ \E i \in DOMAIN acq.records : i \notin Located
    /\ Get(files[CoordinateSystemsPath][1]["position"][1], "altitude_reference") = None

\* the trajectory row accumulated for a frame of the acquisition being processed
RowOf(e) ==
    LET s == CHOOSE s \in DOMAIN acq.poses_by_sequence :
                 acq.poses_by_sequence[s].key = e.sequence_id
    IN acq.poses_by_sequence[s].items[e.frame_index]

\* PoseRecord timestamp, else embedded GPS timestamp, else embedded datetime
BestTimestamp(src) ==
    LET pose == AttachedPose(src)
    IN IF pose # None /\ pose[1]["timestamp"] # None THEN pose[1]["timestamp"]
       ELSE IF EmbeddedValue(src, "timestamp_utc") # None THEN EmbeddedValue(src, "timestamp_utc")
       ELSE ImageAt(src).exif.dt_text

PositionFields ==
    { << "latitude_deg", "gps_latitude" >>, << "longitude_deg", "gps_longitude" >>,
      << "altitude_m", "gps_altitude_m" >> }

OrientationFields == { "heading_deg", "pitch_deg", "roll_deg" }

\* C20 as stated: the timestamp of the trajectory row of a rendered frame is the
\* PoseRecord timestamp, else the GPS timestamp, else the embedded datetime; with a
\* PoseRecord attached, latitude, longitude, altitude, heading, pitch and roll of the
\* row are those of the PoseRecord.
C20_RowFromPoseRecord ==
    \A i \in CurrentFrames :
        LET e == rendered[i]
            pose == AttachedPose(e.src)
        IN /\ RowOf(e)["timestamp"] = BestTimestamp(e.src)
           /\ pose # None =>
                 /\ \A f \in PositionFields : RowOf(e)[f[2]] = pose[1][f[2]]
                 /\ \A f \in OrientationFields : RowOf(e)[f] = pose[1][f]

\* C20: the timestamp of the trajectory row of a rendered frame is the PoseRecord
\* timestamp, else the GPS timestamp, else the embedded datetime; with a PoseRecord
\* attached, heading, pitch and roll of the row are those of the PoseRecord, and each
\* of latitude, longitude, altitude is the PoseRecord's value where it has one and
\* the embedded value otherwise.
C20_RowFromMergedGps ==
    \A i \in CurrentFrames :
        LET e == rendered[i]
            pose == AttachedPose(e.src)
        IN /\ RowOf(e)["timestamp"] = BestTimestamp(e.src)
           /\ pose # None =>
                 /\ \A f \in PositionFields :
                       RowOf(e)[f[2]] = IF pose[1][f[2]] # None THEN pose[1][f[2]]
                                        ELSE EmbeddedValue(e.src, f[1])
                 /\ \A f \in OrientationFields : RowOf(e)[f] = pose[1][f]

C20_Witness ==
    /\ pc = "acquired"
    /\ \E i \in CurrentFrames :
          LET e == rendered[i]
              pose == AttachedPose(e.src)
          IN /\ pose # None
             /\ pose[1]["gps_latitude"] = None
             /\ pose[1]["gps_longitude"] # None
             /\ pose[1]["heading_deg"] # None
             /\ pose[1]["timestamp"] = None
             /\ EmbeddedValue(e.src, "latitude_deg") # None
             /\ EmbeddedValue(e.src, "timestamp_utc") # None
             /\ RowOf(e)["gps_latitude"] = EmbeddedValue(e.src, "latitude_deg")
             /\ RowOf(e)["gps_longitude"] = pose[1]["gps_longitude"]
             /\ RowOf(e)["timestamp"] = EmbeddedValue(e.src, "timestamp_utc")

\* a derived-metadata tree without a null value and without an empty sub-tree
Pruned(derived) ==
    \A k \in DOMAIN derived :
        /\ derived[k] # None
        /\ k \in {"gps", "camera"} =>
              /\ DOMAIN derived[k][1] # {}
              /\ \A j \in DOMAIN derived[k][1] : derived[k][1][j] # None

\* C21: in every record produced by build_records, with or without an attached
\* PoseRecord, the derived-metadata tree is pruned: it holds no null value and no
\* empty sub-tree, in particular no empty gps branch.
C21_DerivedTreePruned ==
    \A i \in DOMAIN call.records : Pruned(call.records[i].derived)

\* the base names that already carry the prefix of acquisition 19700101-Nyon,
\* whatever the case of its letters
AlreadyPrefixed(file) == file.name[1] \in {"19700101-Nyon_", "19700101-NYON_"}

ExpectedCopy(file) ==
    [src |-> file.dir \o "/" \o Join(file.name),
     dest_path |-> call.acquisition_root \o "/06_point_clouds/"
                     \o (IF AlreadyPrefixed(file) THEN "" ELSE call.acquisition_id \o "_")
                     \o Join(file.name)]

\* C22: copy_lidar_assets copies every supplied file into 06_point_clouds of the
\* acquisition as {acquisition_id}_{name}, or as {name} when the name already starts
\* with the acquisition-id prefix in any case; a file whose source and destination
\* are the same path is skipped and not counted; the count returned is the number
\* of copies made.
C22_LidarCopies ==
    Returned("copy_lidar_assets") =>
        LET expected == [i \in DOMAIN call.lidar_paths |-> ExpectedCopy(call.lidar_paths[i])]
            kept == SelectSeq(expected, LAMBDA c : c.src # c.dest_path)
        IN /\ report.copies = kept
           /\ report.copied = Len(kept)

C22_Witness ==
    /\ Returned("copy_lidar_assets")
    /\ Len(call.lidar_paths) = 3
    /\ report.copied = 2
    /\ \E i \in DOMAIN call.lidar_paths :
          /\ call.lidar_paths[i].dir = "19700101-Nyon/06_point_clouds"
          /\ AlreadyPrefixed(call.lidar_paths[i])
    /\ \E c \in Range(report.copies) :
          c.dest_path = "19700101-Nyon/06_point_clouds/19700101-NYON_scan.laz"
    /\ \E c \in Range(report.copies) :
          c.dest_path = "19700101-Nyon/06_point_clouds/19700101-Nyon_20240101-Nyon_scan.laz"

\* the acquisition output folders the run has created
AcquisitionFolders == Range(processed)

\* C23: at the end of a successful run, a multi-folder run included, the reported
\* number of files copied is the number of frames rendered over all acquisitions, and
\* the reported number of acquisitions is the number of distinct acquisition output
\* folders the run created.
C23_TotalsAreExact ==
    (pc = "done" /\ status = Some(0)) =>
        /\ report.total = Len(rendered)
        /\ report.acquisition_total = Cardinality(AcquisitionFolders)

\* the per-sequence trajectory files an acquisition can have
AggregatesOf(id) ==
    UNION { { id \o "/02_poses/S" \o FormatInt(k, 3) \o "_trajectory.csv",
              id \o "/02_poses/S" \o FormatInt(k, 3) \o "_trajectory.geojson" } :
              k \in 1..MaxRecords }

\* the acquisitions of the images whose copy or write fails in this run
FaultedAcquisitions ==
    { KeyOf(call.records[i]) :
        i \in { j \in DOMAIN call.records :
                  \E fault \in AllFaults : call.records[j].src = << fault[1], fault[2] >> } }

\* C24: the per-sequence files of an acquisition are written only after all its
\* frames are rendered; when the rendering of an acquisition aborts at a frame, no
\* trajectory CSV and no GeoJSON exists for any of its sequences, the complete ones
\* included, while the image and the annotation of every rendered frame exist.
C24_NoAggregateOfAbortedAcquisition ==
    /\ AggregatesOf(acq.acquisition_id) \cap DOMAIN files # {} =>
          Cardinality(CurrentFrames) = Len(acq.records)
    /\ (pc = "done" /\ AllFaults # {}) =>
          /\ \A id \in FaultedAcquisitions : AggregatesOf(id) \cap DOMAIN files = {}
          /\ \A i \in DOMAIN rendered :
                /\ ImagePathOf(rendered[i]) \in DOMAIN files
                /\ AnnotationPathOf(rendered[i]) \in DOMAIN files

C24_Witness ==
    /\ Aborted
    /\ args.max_per_seq = 1
    /\ acq.idx = 3
    /\ Cardinality(CurrentFrames) = 2
    /\ {"S001", "S002"} \subseteq acq.sequences_with_pose
    /\ AggregatesOf(acq.acquisition_id) \cap DOMAIN files = {}
    /\ \A i \in CurrentFrames : ImagePathOf(rendered[i]) \in DOMAIN files

\* the frames of the acquisition being processed that were rendered into a sequence
FramesOf(sequence_id) == { i \in CurrentFrames : rendered[i].sequence_id = sequence_id }

\* C25: a trajectory CSV that is written holds exactly one row per frame of its
\* sequence, in frame order, with frame_index 1..n without gaps, the frames without
\* any pose value included; the image_name of each row names an image file rendered
\* into the image directory of that sequence.
C25_CsvRowsAreTheFrames ==
    \A s \in DOMAIN acq.poses_by_sequence :
        LET sequence_id == acq.poses_by_sequence[s].key
        IN CsvPath(sequence_id) \in DOMAIN files =>
             LET rows == files[CsvPath(sequence_id)][1]
             IN /\ Len(rows) = Cardinality(FramesOf(sequence_id))
                /\ \A n \in DOMAIN rows :
                      /\ rows[n]["frame_index"] = Some(n)
                      /\ \E i \in FramesOf(sequence_id) :
                            /\ rendered[i].frame_index = n
                            /\ rows[n]["image_name"] = Some(rendered[i].key \o ".jpg")
                            /\ ImagePathOf(rendered[i]) \in DOMAIN files
                            /\ \A j \in FramesOf(sequence_id) :
                                  rendered[j].frame_index < n => j < i

C25_Witness ==
    /\ pc = "acquired"
    /\ \E s \in DOMAIN acq.poses_by_sequence :
          LET sequence_id == acq.poses_by_sequence[s].key
          IN /\ CsvPath(sequence_id) \in DOMAIN files
             /\ Len(files[CsvPath(sequence_id)][1]) = 2
             /\ ~RowHasData(files[CsvPath(sequence_id)][1][1])
             /\ RowHasData(files[CsvPath(sequence_id)][1][2])
             /\ files[CsvPath(sequence_id)][1][1]["image_name"]
                  = Some("19700101-Nyon_" \o sequence_id \o "_CamFront_000001.jpg")

====
